---- MODULE Spec2Model ----
(***************************************************************************)
(* A model of the request lifecycle of kaptinlin/requests: the request     *)
(* builder's Send, the middleware chain, the retry engine and the buffered *)
(* response handler.                                                       *)
(*                                                                         *)
(* The module holds several specifications over one set of variables.      *)
(* Each specification exercises one group of variables and leaves the      *)
(* other groups at their idle values:                                      *)
(*   Spec         one Send through the chain and the retry engine          *)
(*   SpecChain    the same actions, started from every middleware layout   *)
(*   SpecRetryProxy  the same actions, with round-robin proxies set        *)
(*   SpecOwnResult   the same actions, and middlewares with own results    *)
(*   SpecLock     Sends and client setters running concurrently            *)
(*   SpecHeaders  default and builder headers merged onto a request        *)
(*   SpecPool     buffered responses read through the shared buffer pool   *)
(*   SpecClone    a builder and its Clone, mutated in turn                 *)
(*   SpecQuery    builder queries merged into the URL's query at Send      *)
(*   SpecStream   a streamed body read record by record                    *)
(*   SpecProxy    goroutines calling the round-robin proxy selector        *)
(*   SpecRedirect redirects followed under a redirect policy               *)
(*   SpecNoProxy  hosts asked against a parsed NO_PROXY bypass list        *)
(*   SpecResponse NewResponse, the worker it starts and the accessors      *)
(*   SpecDel      cookies and files added to a builder and deleted         *)
(*   SpecValid    proxy URL lists validated by factories and setters       *)
(*   SpecInfer    a body value prepared: content type inferred, encoded    *)
(*   SpecCache    requests through the cache middleware and its cache      *)
(*   SpecCacheKey the same with requests to several origins                *)
(*   SpecMem      a MemoryCache, its users and its cleanup worker          *)
(*   SpecMemFair  the same under fair scheduling                           *)
(*   SpecStrategy the backoff strategies over their inputs                 *)
(*   SpecSendCtx  Send with a timeout, its context and the streamed body   *)
(*   SpecEnc      an encoded request body, its pooled buffer and retries   *)
(*   SpecShare    two clients created from one Config, and their setters   *)
(***************************************************************************)
EXTENDS Integers, Sequences, FiniteSets, TLC

(***************************************************************************)
(* Bounds of the model.                                                    *)
(***************************************************************************)
MaxRetriesBound == 2
MaxMw == 2
\* Calls each concurrent setter goroutine makes.
MaxSetterCalls == 1
\* Values one header key may hold.
MaxHdrVals == 2
\* Buffered responses built through the pool in one run.
MaxSends == 2
\* Mutator calls on a builder before it is cloned, and on either builder after.
MaxPreOps == 3
MaxPostOps == 2
\* Values one query key may hold.
MaxQVals == 2
\* Records in a streamed body.
MaxRecords == 3
\* Calls of the round-robin selector in one run.
MaxProxyCalls == 6
\* Round trips one HTTPClient.Do makes: the request and the redirects followed.
MaxHops == 2
\* The largest limit given to NewAllowRedirectPolicy / NewSmartRedirectPolicy.
MaxRedirectLimit == 3
\* Entries of a bypass list given to SetProxyWithBypass.
MaxBypassEntries == 2
\* Cookies and files added to one builder before and between the deletions.
MaxAdds == 4
\* Keys given to one DelCookie or DelFile.
MaxDelKeys == 2
\* URLs given to one RoundRobinProxies, RandomProxies or SetProxies.
MaxProxyURLs == 2
\* Ticks of the clock the memory cache reads, and the longest TTL of a Set.
MaxClock == 2
MaxTTL == 1
\* The attempts a backoff strategy is called with are 0..MaxAttempt, and a
\* random draw is one of 0/JitterDraws .. (JitterDraws-1)/JitterDraws.
MaxAttempt == 3
JitterDraws == 4
\* The server writes at most MaxChunks chunks of a response body.
MaxChunks == 2
\* An encoded request body has BodyLen bytes.
BodyLen == 2
\* Setter calls made on the clients created from one Config.
MaxClientOps == 3

(***************************************************************************)
(* Inputs.                                                                 *)
(***************************************************************************)
\* Status codes a transport response may carry (both sides of the 500 line).
StatusCodes == {200, 499, 500}
\* Errors a transport call may return without a response.
TransportErrors == {"conn", "timeout"}
\* Ways a context ends: cancel() by the caller, or its deadline.
CtxErrors == {"Canceled", "DeadlineExceeded"}
\* Header keys as callers write them, and header values.
HdrKeys == {"x-a", "X-A", "X-B"}
HdrValues == {"v1", "v2"}
\* Cookie names.
CookieNames == {"sid", "lang"}
\* Goroutines of the concurrent specification.
Senders == {"s1", "s2"}
Setters == {"w1", "w2"}
\* Response bodies as the transport delivers them.
Payloads == {<<>>, <<"a">>, <<"b", "c">>}
\* The byte buffers the pool hands out.
BufIds == {"buf1", "buf2"}
\* A builder and its clone.
Builders == {"b", "c"}
\* Values added to queries, form fields and path parameters.
FieldValues == {"v1", "v2"}
\* Query keys.
QKeys == {"p1", "p2"}
\* Records of a streamed body: lines that fit the scanner's buffer, and a
\* line of MaxStreamBufferSize bytes or more.
StreamRecords == {"a", "b", "LONG"}
\* Proxy lists given to RoundRobinProxies, and the goroutines calling the
\* selector it returns.
ProxyLists == {<<"P1", "P2">>, <<"P1", "P2", "P3">>}
ProxyCallers == {"g1", "g2", "g3"}
\* Redirects: the Host values of the URLs, the schemes, the redirect statuses
\* a server answers with (307 stands for 307 and 308, which no code path
\* tells apart), the methods of the first request, and the header names the
\* first request carries.
RedirectHosts == {"a.com", "A.COM:8443", "sub.a.com", "b.com"}
RedirectSchemes == {"https", "http"}
RedirectStatuses == {301, 302, 303, 307}
RedirectMethods == {"GET", "HEAD", "POST", "PUT"}
RedirectLimits == 1..MaxRedirectLimit
OriginalHeaders ==
    { {"Authorization", "Cookie", "Cookie2", "Proxy-Authorization",
       "Www-Authenticate", "Content-Type", "Content-Length",
       "Content-Encoding", "Transfer-Encoding", "X-Custom"} }
\* NO_PROXY: strings are sequences of characters.  Domain names are short
\* ("e.c" for a registered domain, "s.e.c" a subdomain of it, "xe.c" a name
\* that ends with the same letters, "o.c" another domain), IPv4 addresses
\* have two octets, the one CIDR prefix length covers the first octet.
BypassEntries ==
    { <<"*">>,
      <<"e", ".", "c">>, <<"E", ".", "C">>, <<".", "e", ".", "c">>,
      <<"1", ".", "1">>, <<"1", ".", "0", "/", "8">>, <<":", ":", "1">> }
ProxyHosts ==
    { <<"e", ".", "c">>, <<"E", ".", "C">>, <<"s", ".", "e", ".", "c">>,
      <<"x", "e", ".", "c">>, <<"o", ".", "c">>, <<"e", ".", "c", ":", "8">>,
      <<"1", ".", "1">>, <<"1", ".", "2">>, <<"2", ".", "1">>,
      <<"1", ".", "1", ":", "8">>,
      <<":", ":", "1">>, <<"[", ":", ":", "1", "]">>,
      <<"[", ":", ":", "1", "]", ":", "8">> }
\* Form names of files.
FileNames == {"doc", "img"}
\* Proxy URLs: two with a supported scheme, one with another scheme, and one
\* url.Parse rejects (missing protocol scheme).
ProxyURLs == {"http://p1:8080", "socks5://p3", "ftp://bad:21", "://invalid_url"}
\* Dynamic types of a body value: the form-like maps, the generic map and
\* list, the empty struct type, a named struct type, a list of strings, text,
\* bytes, a reader, a number and a map of numbers.
BodyTypes == {"url.Values", "map[string][]string", "map[string]string",
              "map[string]any", "[]any", "struct{}", "User", "[]string",
              "string", "[]byte", "io.Reader", "int", "map[string]int"}
\* Content-Type headers set on a builder.
ContentTypes == {"application/json", "application/xml", "application/yaml",
                 "application/x-www-form-urlencoded", "text/plain",
                 "application/octet-stream", "image/png"}
\* Requests seen by the cache middleware: method, URL path and raw query.
CacheMethods == {"GET", "POST", "HEAD"}
CacheQueries == {"", "q=1"}
\* Responses of the next handler: status lines and codes; header maps (nil,
\* one header, one header whose value is not valid UTF-8); bodies.
CacheStatuses == {[Status |-> "200 OK", StatusCode |-> 200],
                  [Status |-> "404 Not Found", StatusCode |-> 404]}
CacheHeaders == {[nil |-> TRUE, m |-> {}],
                 [nil |-> FALSE, m |-> {<<"Content-Type", <<"application/json">>>>}],
                 [nil |-> FALSE, m |-> {<<"X-Raw", <<"BADUTF8">>>>}]}
CacheBodies == {<<>>, <<"a">>}
\* The scheme and host requests are addressed to.
CacheOrigins == {<<"http", "a.example">>, <<"http", "b.example">>, <<"https", "a.example">>}
\* The goroutines that use one MemoryCache, its keys and the values stored.
CacheUsers == {"u1", "u2"}
MemKeys == {"k1"}
MemValues == {"v1", "v2"}
\* Backoff strategies: intervals and caps in nanoseconds; multipliers and
\* jitter fractions as <<numerator, denominator>>.
Intervals == {1, 3, 100}
Multipliers == {<<1, 1>>, <<3, 2>>, <<2, 1>>}
Caps == {5, 400}
Fractions == {<<-1, 2>>, <<0, 1>>, <<1, 4>>, <<1, 2>>, <<2, 1>>}
\* Goroutines that take buffers from the pool besides the sender.
PoolUsers == {"g1", "g2"}
\* Two clients created from one Config; the values their setters are called
\* with.  A Config's header object holds no value or one under the key; its
\* middleware slice is nil, or holds one middleware in an array of one or two.
ConfigClients == {"A", "B"}
SetterValues == {"v1", "v2"}
SetterMiddlewares == {"m1", "m2"}
ConfigHeaders == {"nil", "h0"}
ConfigCaps == {0, 1, 2}

VARIABLES
    \* ---- Client (retry and middleware configuration) ----
    client_MaxRetries,    \* Client.MaxRetries
    client_RetryIf,       \* Client.RetryIf: "default" (DefaultRetryIf) | "nil" | "custom"
    client_Middlewares,   \* Client.Middlewares, in the order added
    client_Headers,       \* Client.Headers: canonical key -> values (<<>>: key absent)
    client_Cookies,       \* Client.Cookies: names, in the order added
    mu_writer,            \* Client.mu: the goroutine holding the writer lock, or "none"
    mu_readers,           \* Client.mu: the goroutines holding the reader lock
    \* ---- RequestBuilder ----
    b_maxRetries,         \* RequestBuilder.maxRetries (0 when never set)
    b_maxRetriesSet,      \* whether RequestBuilder.MaxRetries was called
    b_retryIf,            \* RequestBuilder.retryIf: "nil" | "custom"
    b_middlewares,        \* RequestBuilder.middlewares, in the order added
    b_headers,            \* RequestBuilder.headers: canonical key -> values
    \* ---- one Send call ----
    pc,                   \* position of the Send call
    depth,                \* middlewares entered and not yet returned
    trace,                \* what the middlewares and the terminal handler observed
    attempt,              \* the retry loop's attempt variable
    calls,                \* transport Do calls made so far
    hist,                 \* one record per transport call: what it returned and what became of it
    errs,                 \* the retry loop's errs slice
    timerFired,           \* the back-off timer's channel is ready
    ctxErr,               \* ctx.Err(): "nil" until the context is done
    ret,                  \* (resp, err) travelling back through the chain
    out,                  \* (response, error) returned by Send
    \* ---- the request under construction ----
    req_Header,           \* req.Header: canonical key -> values
    applied,              \* applyHeaders has run
    \* ---- concurrent goroutines on one client ----
    snd,                  \* per sender: which client field its Send reads next
    setr,                 \* per setter: where it is in its call
    \* ---- buffered responses and the buffer pool ----
    pool,                 \* bufferPool: the buffers put back and not taken again
    buf_B,                \* per buffer: its backing array and the length of B
    rsp,                  \* per sender: its NewResponse call in progress
    responses,            \* the responses NewResponse has returned
    \* ---- a builder and its clone ----
    heap,                 \* backing arrays of the builders' slices
    queries,              \* per builder: queries[QueryKey], a slice
    formFields,           \* per builder: formFields[FormKey], a slice
    headers,              \* per builder: headers[HeaderKey], a slice
    cookies,              \* per builder: cookies, a slice of cookie names
    pathParams,           \* per builder: pathParams[ParamKey], "" when absent
    cloned,               \* Clone has been called
    ops,                  \* mutator calls so far: before and after Clone
    \* ---- the URL's query at Send ----
    url_query,            \* parsedURL.Query(): what base URL and path carry, key -> values
    b_queries,            \* RequestBuilder.queries: key -> values
    raw_query,            \* parsedURL.RawQuery after the merge, decoded: key -> values
    merged,               \* Send has merged the queries
    \* ---- the stream worker ----
    st_body,              \* the records the body holds, in order
    st_cb,                \* which of streamErr and streamDone are set
    st_pc,                \* where handleStream is
    st_pos,               \* records the scanner has consumed
    st_scanErr,           \* scanner.Err(): "nil", "TooLong" or "read"
    st_cbFailed,          \* a chunk callback has returned an error
    st_log,               \* the callback invocations, in order
    st_closed,            \* r.RawResponse.Body has been closed
    \* ---- the round-robin proxy selector ----
    rr_proxies,           \* proxies: the verified list
    rr_counter,           \* counter (atomic.Uint64)
    rr_call,              \* per goroutine: its call of the selector in progress
    rr_taken,             \* the values counter.Add(1) - 1 has produced, in order
    rr_returned,          \* the calls that have returned: goroutine, idx, proxy
    \* ---- redirects followed inside one HTTPClient.Do ----
    rd_policy,            \* the policy given to SetRedirectPolicy: kind, limit
    rd_stdlib,            \* which header copier the net/http of the build has
    rd_via,               \* via: the requests made already, oldest first
    rd_strip,             \* net/http: sensitive headers are stripped from now on
    rd_handed,            \* the follow-up request of the last accepted hop, as CheckRedirect received it
    rd_err,               \* the error the policy returned
    rd_done,              \* Do has returned
    \* ---- the bypass list of SetProxyWithBypass ----
    np_bypass,            \* bypass, split at the commas: the entries
    np_parsed,            \* np: <<>> before parseNoProxy, then <<the NoProxy>>
    np_host,              \* req.URL.Host of the request the transport asks about
    np_result,            \* what np.matches answered: "none", "true", "false"
    \* ---- the back-off function ----
    backoffs,             \* the arguments retryStrategy has been called with, in order
    \* ---- the wrapped response NewResponse builds ----
    nr_stream,            \* b.stream is set: a chunk callback
    nr_pc,                \* "build", "returned" (a response), "failed" (nil and an error)
    nr_workers,           \* goroutines NewResponse has started
    nr_BodyBytes,         \* Response.BodyBytes: nil, or the bytes
    nr_last,              \* the last accessor called on the response, and its result
    \* ---- DelCookie and DelFile on one builder ----
    dl_cookies,           \* b.cookies: [Name, id], id tells equal names apart
    dl_files,             \* b.formFiles: [Name, id]
    dl_prev,              \* both lists before the last call
    dl_op,                \* the last call and its keys
    dl_n,                 \* cookies and files added so far
    \* ---- validation of proxy URLs ----
    pv_transport,         \* c.HTTPClient.Transport: "nil", "http" (*http.Transport), "other"
    pv_proxy,             \* transport.Proxy: the selector installed
    pv_prev,              \* transport.Proxy before the last call
    pv_last,              \* the last call: function, URLs, error, selector returned
    \* ---- the body of a request and its content type ----
    ic_bodyData,          \* b.bodyData: the dynamic type of the value, "nil" for none
    ic_header,            \* the builder's Content-Type header, "" for none
    ic_form,              \* b.formFields, b.formFiles are not empty
    ic_explicit,          \* the Content-Type header when Send began
    ic_pc,                \* "build", "prepared", "failed", "sent"
    ic_err,               \* the error of prepareBody
    ic_calls,             \* transport calls made
    \* ---- the cache middleware and its cache ----
    ch_ttl,               \* the middleware's ttl is positive
    ch_servers,           \* the origins requests go to, the headers and bodies they answer
    ch_cache,             \* MemoryCache.data: per key, no item or [data, of, from, expired]
    ch_prev,              \* the cache before the last step
    ch_last,              \* the last call of the middleware, its result and what it did
    \* ---- one MemoryCache, its users and its cleanup worker ----
    mc_workers,           \* goroutines NewMemoryCache has started
    mc_data,              \* c.data: per key, no item or [value, expiration]
    mc_set,               \* per key: the last Set not followed by a Delete
    mc_now,               \* time.Now()
    mc_lock,              \* c.mutex: the writer holding it, the readers holding it
    mc_pc,                \* per user: "idle", "r" (in Get), "w" (in Set or Delete)
    mc_worker,            \* cleanExpired: "none", "select", "want", "locked", "exited"
    mc_tick,              \* ticker.C holds a tick
    mc_done,              \* c.done: "open" or "closed"
    mc_crashed,           \* a goroutine panicked: the process is gone
    mc_got,               \* the last Get: its result; the last Set then, whether its
                          \* TTL had elapsed, whether c.data still held an item
    mc_touch,             \* the last change of c.data: by whom, and under which lock
    \* ---- backoff strategies ----
    bs_cfg,               \* initialInterval, multiplier, maxBackoffTime, fraction
    bs_attempt,           \* the attempt of the last call of the strategy, -1 before it
    bs_delay,             \* what the exponential strategy returned for it
    bs_prev,              \* what it returned for the attempt before
    bs_out,               \* the last call of the jittered strategy
    \* ---- Send, its context and the response body ----
    sx_in,                \* the builder's timeout (0 or positive), whether the caller's
                          \* context has a deadline, whether a chunk callback is set
    sx_pc,                \* where Send is
    sx_cancel,            \* prepareContext returned a cancel function
    sx_ctx,               \* the request's context: "live", "canceled", "deadline"
    sx_sent,              \* chunks the server has written, and whether it ended the body
    sx_atEnd,             \* chunks written when the context ended, -1 while it is live
    sx_got,               \* chunks read from the body
    sx_worker,            \* the handleStream goroutine
    sx_err,               \* the error the body's reader met
    \* ---- an encoded request body and its pooled buffer ----
    ep_max,               \* the retry limit of the request
    ep_pc,                \* "encode", "attempt" (a transport call is running), "done"
    ep_attempt,           \* the attempt of the running transport call
    ep_pos,               \* bytes read from the body's reader so far
    ep_free,              \* how many times the body's buffer lies in the pool
    ep_puts,              \* how many times the body's Close has put it there
    ep_holders,           \* the other goroutines that hold the buffer
    ep_B,                 \* whose bytes the buffer holds
    ep_stale,             \* the body was read after its buffer had been put back
    \* ---- clients created from one Config ----
    cs_objs,              \* the header objects: per object, the values under the key
    cs_arrays,            \* the middleware arrays: per array, its slots up to its capacity
    cs_cfg,               \* the Config: Headers (an object or "nil"), Middlewares (a slice)
    cs_clients,           \* per client: created, Headers, Middlewares
    cs_ops,               \* setter calls made
    cs_last,              \* the last setter call: the client, and what every client's
                          \* requests and the Config held before it
    cs_raced              \* two clients wrote one object, each under its own lock

clientVars == <<client_MaxRetries, client_RetryIf, client_Middlewares,
                client_Headers, client_Cookies, mu_writer, mu_readers>>
builderVars == <<b_maxRetries, b_maxRetriesSet, b_retryIf, b_middlewares, b_headers>>
cfgVars == <<clientVars, builderVars>>
sendVars == <<pc, depth, trace, attempt, calls, hist, errs, timerFired,
              ctxErr, ret, out>>
hdrVars == <<req_Header, applied>>
lockVars == <<snd, setr>>

poolVars == <<pool, buf_B, rsp, responses>>
cloneVars == <<heap, queries, formFields, headers, cookies, pathParams, cloned, ops>>

queryVars == <<url_query, b_queries, raw_query, merged>>

streamVars == <<st_body, st_cb, st_pc, st_pos, st_scanErr, st_cbFailed, st_log, st_closed>>

proxyVars == <<rr_proxies, rr_counter, rr_call, rr_taken, rr_returned>>

redirectVars == <<rd_policy, rd_stdlib, rd_via, rd_strip, rd_handed, rd_err, rd_done>>

noProxyVars == <<np_bypass, np_parsed, np_host, np_result>>

backoffVars == <<backoffs>>

responseVars == <<nr_stream, nr_pc, nr_workers, nr_BodyBytes, nr_last>>

delVars == <<dl_cookies, dl_files, dl_prev, dl_op, dl_n>>

validVars == <<pv_transport, pv_proxy, pv_prev, pv_last>>

inferVars == <<ic_bodyData, ic_header, ic_form, ic_explicit, ic_pc, ic_err, ic_calls>>

cacheVars == <<ch_ttl, ch_servers, ch_cache, ch_prev, ch_last>>

memVars == <<mc_workers, mc_data, mc_set, mc_now, mc_lock, mc_pc, mc_worker, mc_tick,
            mc_done, mc_crashed, mc_got, mc_touch>>

strategyVars == <<bs_cfg, bs_attempt, bs_delay, bs_prev, bs_out>>

sendCtxVars == <<sx_in, sx_pc, sx_cancel, sx_ctx, sx_sent, sx_atEnd, sx_got, sx_worker, sx_err>>

encVars == <<ep_max, ep_pc, ep_attempt, ep_pos, ep_free, ep_puts, ep_holders, ep_B, ep_stale>>

shareVars == <<cs_objs, cs_arrays, cs_cfg, cs_clients, cs_ops, cs_last, cs_raced>>

\* The groups of the later sections, and the groups before them.
extVars == <<queryVars, streamVars, proxyVars, redirectVars, noProxyVars, backoffVars, responseVars, delVars, validVars, inferVars, cacheVars, memVars, strategyVars, sendCtxVars, encVars, shareVars>>
baseVars == <<clientVars, builderVars, sendVars, hdrVars, lockVars, poolVars, cloneVars>>

vars == <<baseVars, extVars>>

\* What the actions of one Send leave alone.
offSend == <<hdrVars, lockVars, poolVars, cloneVars, extVars>>

\* What a transport call leaves alone: it consults the proxy selector.
offDo == <<hdrVars, lockVars, poolVars, cloneVars, queryVars, streamVars, redirectVars, noProxyVars, backoffVars, responseVars, delVars, validVars, inferVars, cacheVars, memVars, strategyVars, sendCtxVars, encVars, shareVars>>

\* The variables the loop body after a transport call leaves alone, besides
\* the configuration and the Send's own.
offAfterAttempt == <<hdrVars, lockVars, poolVars, cloneVars, queryVars, streamVars, proxyVars, redirectVars, noProxyVars, responseVars, delVars, validVars, inferVars, cacheVars, memVars, strategyVars, sendCtxVars, encVars, shareVars>>

(***************************************************************************)
(* Helpers on sequences.                                                   *)
(***************************************************************************)
Min(a, b) == IF a < b THEN a ELSE b

Reverse(s) == [i \in 1..Len(s) |-> s[Len(s) + 1 - i]]

(***************************************************************************)
(* Errors.  An error value is a record: kind "nil" is the nil error,       *)
(* "raw" a transport error as returned, "join" errors.Join of annotated    *)
(* errors, "ctx" ctx.Err(), "read" ErrResponseReadFailed, "respnil"        *)
(* ErrResponseNil.                                                         *)
(***************************************************************************)
NilErr == [kind |-> "nil", e |-> "", errs |-> <<>>]
RawErr(e) == [kind |-> "raw", e |-> e, errs |-> <<>>]
CtxErr(e) == [kind |-> "ctx", e |-> e, errs |-> <<>>]
ReadFailedErr == [kind |-> "read", e |-> "ErrResponseReadFailed", errs |-> <<>>]
ResponseNilErr == [kind |-> "respnil", e |-> "ErrResponseNil", errs |-> <<>>]

\* fmt.Errorf("attempt %d/%d: %w", attempt+1, maxRetries+1, err)
Annotate(att, maxR, e) == [attempt |-> att + 1, of |-> maxR + 1, e |-> e]

\* errors.Join(errs...)
JoinErrs(es) == [kind |-> "join", e |-> "", errs |-> es]

(***************************************************************************)
(* Configuration resolved at the top of the terminal handler.              *)
(***************************************************************************)
\* maxRetries := b.client.MaxRetries; if b.maxRetries > 0 { maxRetries = b.maxRetries }
maxRetries == IF b_maxRetries > 0 THEN b_maxRetries ELSE client_MaxRetries

\* retryIf := b.client.RetryIf; if b.retryIf != nil { retryIf = b.retryIf }
retryIf == IF b_retryIf # "nil" THEN b_retryIf ELSE client_RetryIf

\* Mutant: the status test excludes 500 itself.
DefaultRetryIfAbove500(resp, err) ==
    IF err # "" THEN TRUE ELSE resp # 0 /\ resp > 500

\* DefaultRetryIf(req, resp, err); resp is a status code, 0 for a nil response.
DefaultRetryIf(resp, err) ==
    IF err # "" THEN TRUE ELSE resp # 0 /\ resp >= 500

\* The resolved predicate applied to one attempt's result; a custom predicate's
\* answer is an input recorded with the attempt.
RetryIfResult(a) ==
    CASE retryIf = "default" -> DefaultRetryIf(a.resp, a.err)
      [] retryIf = "custom"  -> a.pred
      [] OTHER               -> FALSE

\* shouldRetry := err != nil || (resp != nil && retryIf != nil && retryIf(req, resp, err))
shouldRetry(a) ==
    a.err # "" \/ (a.resp # 0 /\ retryIf # "nil" /\ RetryIfResult(a))

\* Mutant: the loop ends one attempt early.
IsLastAttemptOffByOne(att) == att + 1 = maxRetries

\* The comparison that ends the loop at the last attempt.
IsLastAttempt(att) == att = maxRetries

\* Mutant: the back-off function gets the number of the attempt, from 1.
BackoffArgFromOne(att) == att + 1

\* retryStrategy(attempt): the argument of the back-off function.
BackoffArg(att) == att

\* Mutant: only the last error is returned.
FinalErrorLastOnly(a, es) ==
    IF a.err = "" THEN NilErr ELSE RawErr(a.err)

\* Mutant: a 5xx response at the end of the loop is returned as an error.
FinalErrorOnStatus(a, es) ==
    IF a.err = "" THEN (IF a.resp >= 500 THEN RawErr("status") ELSE NilErr)
    ELSE IF Len(es) > 1 THEN JoinErrs(es)
    ELSE RawErr(a.err)

\* The error returned when the loop ends at attempt result a with errs = es.
FinalError(a, es) ==
    IF a.err = "" THEN NilErr
    ELSE IF Len(es) > 1 THEN JoinErrs(es)
    ELSE RawErr(a.err)

(***************************************************************************)
(* Middleware chain.  A chain is the sequence of middlewares from the      *)
(* outermost to the innermost; wrapping puts a middleware in front.        *)
(***************************************************************************)
RECURSIVE WrapBackward(_, _)
\* for _, mw := range slices.Backward(mws) { handler = mw(handler) }
WrapBackward(mws, handler) ==
    IF mws = <<>> THEN handler
    ELSE WrapBackward(SubSeq(mws, 1, Len(mws) - 1), <<mws[Len(mws)]>> \o handler)

\* Mutant: client-level middlewares wrap the terminal handler first.
ChainClientInnermost == WrapBackward(b_middlewares, WrapBackward(client_Middlewares, <<>>))

\* Request-level middlewares wrap the terminal handler first, then client-level.
Chain == WrapBackward(client_Middlewares, WrapBackward(b_middlewares, <<>>))

ClientMws(n) == [i \in 1..n |-> <<"c", i>>]
RequestMws(n) == [i \in 1..n |-> <<"r", i>>]

(***************************************************************************)
(* Transport results.                                                      *)
(***************************************************************************)
\* http.Client.Do returns a response, or an error, or (when CheckRedirect
\* fails) a response whose body it has already closed together with an error.
DoResults ==
    {[resp |-> s, err |-> "", closed |-> FALSE] : s \in StatusCodes}
    \cup {[resp |-> 0, err |-> e, closed |-> FALSE] : e \in TransportErrors}
    \cup {[resp |-> 302, err |-> "redirect", closed |-> TRUE]}

\* resp.Body.Close() on the response of transport call k (0: nil response).
CloseBody(h, k) ==
    IF k = 0 \/ h[k].resp = 0 THEN h
    ELSE [h EXCEPT ![k].closed = TRUE]

\* handleNonStream when ReadFrom fails: the error is returned at once.
CloseAfterReadFailure(h, k) == h

\* The index in hist of the response of the latest call, 0 when it was nil.
LastResp == IF hist[calls].resp = 0 THEN 0 ELSE calls

\* Mutant: the counter is read and not advanced.
CounterNotAdvanced(c) == c

\* counter.Add(1): the new value of the counter.
CounterAdd(c) == c + 1

\* Mutant: the first proxy, whatever the counter.
ProxyAlwaysFirst(proxies, idx) == proxies[1]

\* proxies[idx%n]
ProxyAt(proxies, idx) == proxies[(idx % Len(proxies)) + 1]

\* The round trips a transport call may make.
HopChoices == IF rr_proxies = <<>> THEN {1} ELSE 1..MaxHops

\* The proxies the selector hands to n successive round trips, from counter c.
ProxiesFrom(c, n) == [i \in 1..n |-> ProxyAt(rr_proxies, c + i - 1)]

RECURSIVE CounterAfter(_, _)
\* The counter after n calls of the selector.
CounterAfter(c, n) == IF n = 0 THEN c ELSE CounterAfter(CounterAdd(c), n - 1)

\* Whether the transport consults transport.Proxy for a call: a selector is
\* set, and the request's context is not done when the round trip starts.
ConsultsProxy == rr_proxies # <<>> /\ ctxErr = "nil"

\* One HTTPClient.Do of `hops` round trips, on the selector: the proxies
\* used, and the selector's state after.
SelectProxies(hops, used) ==
    IF ConsultsProxy
    THEN /\ used = ProxiesFrom(rr_counter, hops)
         /\ rr_counter' = CounterAfter(rr_counter, hops)
         /\ rr_taken' = rr_taken \o [i \in 1..hops |-> rr_counter + i - 1]
         /\ UNCHANGED <<rr_proxies, rr_call, rr_returned>>
    ELSE /\ used = <<>>
         /\ UNCHANGED proxyVars

(***************************************************************************)
(* Header maps (http.Header).                                              *)
(***************************************************************************)
\* textproto.CanonicalMIMEHeaderKey on the keys of the model.
Canonical(k) == IF k = "x-a" THEN "X-A" ELSE k
CanonKeys == {Canonical(k) : k \in HdrKeys}

EmptyHeader == [k \in CanonKeys |-> <<>>]

\* http.Header.Set, Add, Del
HSet(h, k, v) == [h EXCEPT ![Canonical(k)] = <<v>>]
HAdd(h, k, v) == [h EXCEPT ![Canonical(k)] = Append(@, v)]
HDel(h, k) == [h EXCEPT ![Canonical(k)] = <<>>]

\* req.Header.Add(key, value) as applyHeaders calls it.
ReqHeaderAdd(h, k, v) == HAdd(h, k, v)

RECURSIVE AddValues(_, _, _)
\* for _, value := range values { req.Header.Add(key, value) }
AddValues(h, k, vals) ==
    IF vals = <<>> THEN h
    ELSE AddValues(ReqHeaderAdd(h, k, Head(vals)), k, Tail(vals))

RECURSIVE AddHeaders(_, _, _)
\* for key, values := range src { ... }, over the keys not yet visited
AddHeaders(h, src, keys) ==
    IF keys = {} THEN h
    ELSE LET k == CHOOSE x \in keys : TRUE
         IN AddHeaders(AddValues(h, k, src[k]), src, keys \ {k})

\* applyHeaders: the client's headers, then the builder's.
applyHeaders(h) ==
    AddHeaders(AddHeaders(h, client_Headers, CanonKeys), b_headers, CanonKeys)

\* The cookies that slices.DeleteFunc keeps: those not named `name`.
RECURSIVE DeleteCookie(_, _)
DeleteCookie(cs, name) ==
    IF cs = <<>> THEN <<>>
    ELSE (IF Head(cs) = name THEN <<>> ELSE <<Head(cs)>>) \o DeleteCookie(Tail(cs), name)

(***************************************************************************)
(* Idle values: what a specification leaves untouched.                     *)
(***************************************************************************)
IdleClientData ==
    /\ client_Headers = EmptyHeader
    /\ client_Cookies = <<>>
    /\ mu_writer = "none"
    /\ mu_readers = {}

IdleRetryConfig ==
    /\ client_MaxRetries = 0
    /\ client_RetryIf = "default"
    /\ b_maxRetries = 0
    /\ b_maxRetriesSet = FALSE
    /\ b_retryIf = "nil"

IdleSend ==
    /\ pc = "idle"
    /\ depth = 0
    /\ trace = <<>>
    /\ attempt = 0
    /\ calls = 0
    /\ hist = <<>>
    /\ errs = <<>>
    /\ timerFired = FALSE
    /\ ctxErr = "nil"
    /\ ret = [resp |-> 0, err |-> NilErr]
    /\ out = [resp |-> 0, err |-> NilErr]

IdleHeaders ==
    /\ b_headers = EmptyHeader
    /\ req_Header = EmptyHeader
    /\ applied = FALSE

IdleLock ==
    /\ snd = [s \in Senders |-> [at |-> 1, reading |-> FALSE, raced |-> FALSE]]
    /\ setr = [w \in Setters |-> [pc |-> "idle", op |-> "none", arg |-> "", calls |-> 0]]

\* A slice header: the backing array (0: nil) and the length.
NilSlice == [arr |-> 0, len |-> 0]

IdlePool ==
    /\ pool = {}
    /\ buf_B = [id \in BufIds |-> [arr |-> <<>>, len |-> 0]]
    /\ rsp = [s \in Senders |-> [pc |-> "idle", wire |-> <<>>, buf |-> "none", n |-> 0,
                                 failed |-> FALSE,
                                 BodyBytes |-> [buf |-> "none", len |-> 0, bytes |-> <<>>]]]
    /\ responses = <<>>

IdleClone ==
    /\ heap = <<>>
    /\ queries = [x \in Builders |-> NilSlice]
    /\ formFields = [x \in Builders |-> NilSlice]
    /\ headers = [x \in Builders |-> NilSlice]
    /\ cookies = [x \in Builders |-> NilSlice]
    /\ pathParams = [x \in Builders |-> ""]
    /\ cloned = FALSE
    /\ ops = [pre |-> 0, post |-> 0]

\* A query map with no key.
EmptyQuery == [k \in QKeys |-> <<>>]

IdleQuery ==
    /\ url_query = EmptyQuery
    /\ b_queries = EmptyQuery
    /\ raw_query = EmptyQuery
    /\ merged = FALSE

IdleStream ==
    /\ st_body = <<>>
    /\ st_cb = [err |-> FALSE, done |-> FALSE]
    /\ st_pc = "idle"
    /\ st_pos = 0
    /\ st_scanErr = "nil"
    /\ st_cbFailed = FALSE
    /\ st_log = <<>>
    /\ st_closed = FALSE

IdleProxy ==
    /\ rr_proxies = <<>>
    /\ rr_counter = 0
    /\ rr_call = [g \in ProxyCallers |-> [pc |-> "idle", idx |-> 0]]
    /\ rr_taken = <<>>
    /\ rr_returned = {}

IdleRedirect ==
    /\ rd_policy = [kind |-> "none", limit |-> 0]
    /\ rd_stdlib = "sticky"
    /\ rd_via = <<>>
    /\ rd_strip = FALSE
    /\ rd_handed = <<>>
    /\ rd_err = "nil"
    /\ rd_done = TRUE

IdleNoProxy ==
    /\ np_bypass = <<>>
    /\ np_parsed = <<>>
    /\ np_host = <<>>
    /\ np_result = "none"

\* No call of the back-off function yet: also the state at the start of a Send.
IdleBackoff == backoffs = <<>>

\* BodyBytes: nil
NilBytes == [nil |-> TRUE, b |-> <<>>]

\* No accessor called yet.
NoCall == [op |-> "none", body |-> NilBytes, n |-> 0, target |-> "untouched",
           err |-> FALSE, lines |-> <<>>]

IdleResponse ==
    /\ nr_stream = FALSE
    /\ nr_pc = "build"
    /\ nr_workers = 0
    /\ nr_BodyBytes = NilBytes
    /\ nr_last = NoCall

IdleDel ==
    /\ dl_cookies = <<>>
    /\ dl_files = <<>>
    /\ dl_prev = [cookies |-> <<>>, files |-> <<>>]
    /\ dl_op = [op |-> "none", keys |-> <<>>]
    /\ dl_n = 0

\* transport.Proxy == nil
NoSelector == [kind |-> "nil", of |-> <<>>]

IdleValid ==
    /\ pv_transport = "nil"
    /\ pv_proxy = NoSelector
    /\ pv_prev = NoSelector
    /\ pv_last = [fn |-> "none", urls |-> <<>>, err |-> "nil", selector |-> NoSelector]

IdleInfer ==
    /\ ic_bodyData = "nil"
    /\ ic_header = ""
    /\ ic_form = [fields |-> FALSE, files |-> FALSE]
    /\ ic_explicit = ""
    /\ ic_pc = "build"
    /\ ic_err = "nil"
    /\ ic_calls = 0

\* The cache keys of the model, and a cache without items.
CacheKeys == {<<"/test", "">>, <<"/test", "q=1">>}
NoRequest == [scheme |-> "", host |-> "", path |-> "", rawQuery |-> ""]
NoItem == [present |-> FALSE, data |-> <<>>, of |-> <<>>, from |-> NoRequest, expired |-> FALSE]
EmptyCache == [k \in CacheKeys |-> NoItem]

\* No response.
NoResponse == [Status |-> "", StatusCode |-> 0, Header |-> [nil |-> TRUE, m |-> {}],
               Body |-> <<>>]

NoCacheCall == [op |-> "none", method |-> "", req |-> NoRequest, key |-> <<>>, read |-> FALSE, wrote |-> FALSE,
                nextCalled |-> FALSE, nextErr |-> FALSE, resp |-> NoResponse, err |-> "nil"]

\* One origin, answering with any header map and body.
OneOrigin == [origins |-> {<<"http", "a.example">>}, headers |-> CacheHeaders,
              bodies |-> CacheBodies]

IdleCache ==
    /\ ch_ttl = TRUE
    /\ ch_servers = OneOrigin
    /\ ch_cache = EmptyCache
    /\ ch_prev = EmptyCache
    /\ ch_last = NoCacheCall

\* No item under a key.
NoMemItem == [present |-> FALSE, value |-> "", expiration |-> 0]

\* No Get yet.
NoGet == [ok |-> FALSE, value |-> "", set |-> FALSE, setValue |-> "", elapsed |-> FALSE,
          kept |-> FALSE]

\* A cache not yet made.
IdleMem ==
    /\ mc_workers = 0
    /\ mc_data = [k \in MemKeys |-> NoMemItem]
    /\ mc_set = [k \in MemKeys |-> NoMemItem]
    /\ mc_now = 0
    /\ mc_lock = [w |-> "none", r |-> {}]
    /\ mc_pc = [g \in CacheUsers |-> "idle"]
    /\ mc_worker = "none"
    /\ mc_tick = FALSE
    /\ mc_done = "open"
    /\ mc_crashed = FALSE
    /\ mc_got = NoGet
    /\ mc_touch = [by |-> "none", exclusive |-> TRUE]

NoJitter == [called |-> FALSE, base |-> 0, draw |-> 0, result |-> 0]

IdleStrategy ==
    /\ bs_cfg = [initialInterval |-> 1, multiplier |-> <<1, 1>>, maxBackoffTime |-> 5,
                 fraction |-> <<0, 1>>]
    /\ bs_attempt = -1
    /\ bs_delay = 0
    /\ bs_prev = 0
    /\ bs_out = NoJitter

IdleSendCtx ==
    /\ sx_in = [timeout |-> 0, deadline |-> FALSE, stream |-> FALSE]
    /\ sx_pc = "start"
    /\ sx_cancel = FALSE
    /\ sx_ctx = "live"
    /\ sx_sent = [n |-> 0, ended |-> FALSE]
    /\ sx_atEnd = -1
    /\ sx_got = 0
    /\ sx_worker = "none"
    /\ sx_err = "nil"

IdleEnc ==
    /\ ep_max = 0
    /\ ep_pc = "encode"
    /\ ep_attempt = 0
    /\ ep_pos = 0
    /\ ep_free = 0
    /\ ep_puts = 0
    /\ ep_holders = {}
    /\ ep_B = "none"
    /\ ep_stale = FALSE

\* A slice: its array ("nil" for the nil slice) and its length.
NoSlice == [arr |-> "nil", len |-> 0]
NoClient == [created |-> FALSE, Headers |-> "nil", Middlewares |-> NoSlice]
NoSetter == [by |-> "none", before |-> <<>>]

IdleShare ==
    /\ cs_objs = [o \in {"h0", "A", "B"} |-> <<>>]
    /\ cs_arrays = [a \in {"a0", "A", "B"} |-> <<>>]
    /\ cs_cfg = [Headers |-> "nil", Middlewares |-> NoSlice]
    /\ cs_clients = [c \in ConfigClients |-> NoClient]
    /\ cs_ops = 0
    /\ cs_last = NoSetter
    /\ cs_raced = FALSE

\* The groups before the later sections, idle.
IdleBase ==
    /\ IdleRetryConfig
    /\ client_Middlewares = <<>>
    /\ b_middlewares = <<>>
    /\ IdleClientData /\ IdleHeaders /\ IdleSend /\ IdleLock /\ IdlePool /\ IdleClone

\* The groups of the later sections, idle.
IdleExt == IdleQuery /\ IdleStream /\ IdleProxy /\ IdleRedirect /\ IdleNoProxy /\ IdleBackoff /\ IdleResponse /\ IdleDel /\ IdleValid /\ IdleInfer /\ IdleCache /\ IdleMem /\ IdleStrategy /\ IdleSendCtx /\ IdleEnc /\ IdleShare

\* The same without the proxy selector.
IdleExtButProxy == IdleQuery /\ IdleStream /\ IdleRedirect /\ IdleNoProxy /\ IdleBackoff /\ IdleResponse /\ IdleDel /\ IdleValid /\ IdleInfer /\ IdleCache /\ IdleMem /\ IdleStrategy /\ IdleSendCtx /\ IdleEnc /\ IdleShare

(***************************************************************************)
(* Send: initial states.                                                   *)
(***************************************************************************)
SendStart ==
    /\ pc = "chain_in"
    /\ depth = 0
    /\ trace = <<>>
    /\ attempt = 0
    /\ calls = 0
    /\ hist = <<>>
    /\ errs = <<>>
    /\ timerFired = FALSE
    /\ ctxErr = "nil"
    /\ ret = [resp |-> 0, err |-> NilErr]
    /\ out = [resp |-> 0, err |-> NilErr]

\* Every retry configuration, one client and one request middleware.
InitSend ==
    /\ client_MaxRetries \in 0..MaxRetriesBound
    /\ b_maxRetries \in 0..MaxRetriesBound
    /\ b_maxRetriesSet \in (IF b_maxRetries > 0 THEN {TRUE} ELSE BOOLEAN)
    /\ client_RetryIf \in {"default", "nil"}
    /\ b_retryIf \in {"nil", "custom"}
    /\ client_Middlewares = ClientMws(1)
    /\ b_middlewares = RequestMws(1)
    /\ SendStart
    /\ IdleClientData /\ IdleHeaders /\ IdleLock /\ IdlePool /\ IdleClone /\ IdleExt

\* Every middleware layout, the default retry predicate.
InitChain ==
    /\ client_MaxRetries \in 0..1
    /\ b_maxRetries = 0
    /\ b_maxRetriesSet = FALSE
    /\ client_RetryIf = "default"
    /\ b_retryIf = "nil"
    /\ \E n \in 0..MaxMw : client_Middlewares = ClientMws(n)
    /\ \E m \in 0..MaxMw : b_middlewares = RequestMws(m)
    /\ SendStart
    /\ IdleClientData /\ IdleHeaders /\ IdleLock /\ IdlePool /\ IdleClone /\ IdleExt

\* client.SetProxies(...) on a client with no traffic yet; every client retry
\* limit, the default retry predicate, one client middleware.
InitRetryProxy ==
    /\ client_MaxRetries \in 0..MaxRetriesBound
    /\ b_maxRetries = 0
    /\ b_maxRetriesSet = FALSE
    /\ client_RetryIf = "default"
    /\ b_retryIf = "nil"
    /\ client_Middlewares = ClientMws(1)
    /\ b_middlewares = <<>>
    /\ SendStart
    /\ IdleClientData /\ IdleHeaders /\ IdleLock /\ IdlePool /\ IdleClone /\ IdleExtButProxy
    /\ rr_proxies \in ProxyLists
    /\ rr_counter = 0
    /\ rr_taken = <<>>
    /\ rr_call = [g \in ProxyCallers |-> [pc |-> "idle", idx |-> 0]]
    /\ rr_returned = {}

(***************************************************************************)
(* Send: actions.                                                          *)
(***************************************************************************)
\* A middleware records the request and calls next.
MiddlewareEnter ==
    /\ pc = "chain_in"
    /\ depth < Len(Chain)
    /\ depth' = depth + 1
    /\ trace' = Append(trace, <<"pre", Chain[depth + 1]>>)
    /\ UNCHANGED <<cfgVars, offSend, pc, attempt, calls, hist, errs, timerFired, ctxErr, ret, out>>

\* The terminal handler starts: without retries it makes one direct call.
TerminalStart ==
    /\ pc = "chain_in"
    /\ depth = Len(Chain)
    /\ trace' = Append(trace, <<"T", <<"t", 0>>>>)
    /\ attempt' = 0
    /\ pc' = IF maxRetries < 1 THEN "direct" ELSE "call"
    /\ UNCHANGED <<cfgVars, offSend, depth, calls, hist, errs, timerFired, ctxErr, ret, out>>

\* return b.client.HTTPClient.Do(req)
DirectDo ==
    /\ pc = "direct"
    /\ \E r \in DoResults, hops \in HopChoices :
          /\ hist' = Append(hist, [resp |-> r.resp, err |-> r.err, closed |-> r.closed,
                                   pred |-> FALSE, wait |-> "none",
                                   via |-> IF ConsultsProxy THEN ProxiesFrom(rr_counter, hops)
                                           ELSE <<>>])
          /\ SelectProxies(hops, hist'[Len(hist')].via)
          /\ calls' = calls + 1
          /\ ret' = [resp |-> IF r.resp = 0 THEN 0 ELSE calls + 1,
                     err |-> IF r.err = "" THEN NilErr ELSE RawErr(r.err)]
    /\ pc' = "chain_out"
    /\ UNCHANGED <<cfgVars, offDo, depth, trace, attempt, errs, timerFired, ctxErr, out>>

\* resp, err = b.client.HTTPClient.Do(req) inside the loop
TransportDo ==
    /\ pc = "call"
    /\ \E r \in DoResults, p \in BOOLEAN, hops \in HopChoices :
          /\ p => (retryIf = "custom" /\ r.err = "")
          /\ hist' = Append(hist, [resp |-> r.resp, err |-> r.err, closed |-> r.closed,
                                   pred |-> p, wait |-> "none",
                                   via |-> IF ConsultsProxy THEN ProxiesFrom(rr_counter, hops)
                                           ELSE <<>>])
          /\ SelectProxies(hops, hist'[Len(hist')].via)
    /\ calls' = calls + 1
    /\ pc' = "decide"
    /\ UNCHANGED <<cfgVars, offDo, depth, trace, attempt, errs, timerFired, ctxErr, ret, out>>

\* The loop body after the call: record the error, decide, close, arm the timer.
AfterAttempt ==
    /\ pc = "decide"
    /\ LET a == hist[calls]
           es == IF a.err # "" THEN Append(errs, Annotate(attempt, maxRetries, a.err))
                 ELSE errs
       IN /\ errs' = es
          /\ IF ~shouldRetry(a) \/ IsLastAttempt(attempt)
             THEN /\ ret' = [resp |-> LastResp,
                             err |-> FinalError(a, es)]
                  /\ pc' = "chain_out"
                  /\ UNCHANGED <<hist, timerFired, backoffs>>
             ELSE /\ hist' = CloseBody(hist, LastResp)
                  /\ backoffs' = Append(backoffs, BackoffArg(attempt))
                  /\ timerFired' = FALSE
                  /\ pc' = "backoff"
                  /\ UNCHANGED ret
    /\ UNCHANGED <<cfgVars, offAfterAttempt, depth, trace, attempt, calls, ctxErr, out>>

\* The timer armed by time.NewTimer(retryStrategy(attempt)) expires.
TimerFire ==
    /\ pc = "backoff"
    /\ ~timerFired
    /\ timerFired' = TRUE
    /\ UNCHANGED <<cfgVars, offSend, pc, depth, trace, attempt, calls, hist, errs, ctxErr, ret, out>>

\* The context given to Send is cancelled or reaches its deadline.
CtxDone ==
    /\ ctxErr = "nil"
    /\ pc # "done"
    /\ \E e \in CtxErrors : ctxErr' = e
    /\ UNCHANGED <<cfgVars, offSend, pc, depth, trace, attempt, calls, hist, errs, timerFired, ret, out>>

\* select: case <-ctx.Done()
SelectCtxDone ==
    /\ pc = "backoff"
    /\ ctxErr # "nil"
    /\ hist' = [hist EXCEPT ![calls].wait = "ctx"]
    /\ ret' = [resp |-> 0, err |-> CtxErr(ctxErr)]
    /\ pc' = "chain_out"
    /\ UNCHANGED <<cfgVars, offSend, depth, trace, attempt, calls, errs, timerFired, ctxErr, out>>

\* select: case <-timer.C  (either case may be taken when both are ready)
SelectTimer ==
    /\ pc = "backoff"
    /\ timerFired
    /\ hist' = [hist EXCEPT ![calls].wait = "timer"]
    /\ attempt' = attempt + 1
    /\ pc' = "call"
    /\ UNCHANGED <<cfgVars, offSend, depth, trace, calls, errs, timerFired, ctxErr, ret, out>>

\* A middleware gets next's result, records it and returns it unchanged.
MiddlewareExit ==
    /\ pc = "chain_out"
    /\ depth > 0
    /\ trace' = Append(trace, <<"post", Chain[depth]>>)
    /\ depth' = depth - 1
    /\ UNCHANGED <<cfgVars, offSend, pc, attempt, calls, hist, errs, timerFired, ctxErr, ret, out>>

\* Send after b.do returned: error, nil response, or NewResponse.
SendAfterDo ==
    /\ pc = "chain_out"
    /\ depth = 0
    /\ IF ret.err.kind # "nil"
       THEN /\ hist' = CloseBody(hist, ret.resp)
            /\ out' = [resp |-> 0, err |-> ret.err]
            /\ pc' = "done"
       ELSE IF ret.resp = 0
       THEN /\ out' = [resp |-> 0, err |-> ResponseNilErr]
            /\ pc' = "done"
            /\ UNCHANGED hist
       ELSE /\ pc' = "drain"
            /\ UNCHANGED <<hist, out>>
    /\ UNCHANGED <<cfgVars, offSend, depth, trace, attempt, calls, errs, timerFired, ctxErr, ret>>

\* NewResponse without a chunk callback: handleNonStream drains the body.
HandleNonStream ==
    /\ pc = "drain"
    /\ \E readOk \in BOOLEAN :
          IF readOk
          THEN /\ hist' = CloseBody(hist, ret.resp)
               /\ out' = [resp |-> ret.resp, err |-> NilErr]
          ELSE /\ hist' = CloseAfterReadFailure(hist, ret.resp)
               /\ out' = [resp |-> 0, err |-> ReadFailedErr]
    /\ pc' = "done"
    /\ UNCHANGED <<cfgVars, offSend, depth, trace, attempt, calls, errs, timerFired, ctxErr, ret>>

NextSend ==
    \/ MiddlewareEnter
    \/ TerminalStart
    \/ DirectDo
    \/ TransportDo
    \/ AfterAttempt
    \/ TimerFire
    \/ CtxDone
    \/ SelectCtxDone
    \/ SelectTimer
    \/ MiddlewareExit
    \/ SendAfterDo
    \/ HandleNonStream

\* What a middleware may return in place of next's result: a response of
\* its own or none, an error of its own or none.
OwnResults == [withResp : BOOLEAN, err : {"", "mw"}]

\* One middleware of each level, retries off or one retry.
InitOwnResult ==
    /\ client_MaxRetries \in 0..1
    /\ b_maxRetries = 0
    /\ b_maxRetriesSet = FALSE
    /\ client_RetryIf = "default"
    /\ b_retryIf = "nil"
    /\ client_Middlewares = ClientMws(1)
    /\ b_middlewares = RequestMws(1)
    /\ SendStart
    /\ IdleClientData /\ IdleHeaders /\ IdleLock /\ IdlePool /\ IdleClone /\ IdleExt

\* A middleware returns a result of its own: without calling next, or in
\* place of what next returned.
MiddlewareOwnResult ==
    /\ pc \in {"chain_in", "chain_out"}
    /\ depth >= 1
    /\ \E r \in OwnResults :
          /\ hist' = IF r.withResp
                     THEN Append(hist, [resp |-> 200, err |-> "", closed |-> FALSE,
                                        pred |-> FALSE, wait |-> "none", via |-> <<>>])
                     ELSE hist
          /\ ret' = [resp |-> IF r.withResp THEN Len(hist) + 1 ELSE 0,
                     err |-> IF r.err = "" THEN NilErr ELSE RawErr(r.err)]
    /\ trace' = Append(trace, <<"post", Chain[depth]>>)
    /\ depth' = depth - 1
    /\ pc' = "chain_out"
    /\ UNCHANGED <<cfgVars, offSend, attempt, calls, errs, timerFired, ctxErr, out>>

NextOwnResult ==
    \/ NextSend
    \/ MiddlewareOwnResult


(***************************************************************************)
(* Headers: the client's setters, the builder's mutators and applyHeaders, *)
(* called one after the other by one goroutine.                            *)
(***************************************************************************)
InitHeaders ==
    /\ IdleRetryConfig
    /\ client_Middlewares = <<>>
    /\ b_middlewares = <<>>
    /\ IdleClientData /\ IdleHeaders /\ IdleSend /\ IdleLock /\ IdlePool /\ IdleClone /\ IdleExt

offHeaders == <<client_MaxRetries, client_RetryIf, client_Middlewares, client_Cookies,
                mu_writer, mu_readers, b_maxRetries, b_maxRetriesSet, b_retryIf,
                b_middlewares,
                sendVars, lockVars, poolVars, cloneVars, extVars>>

\* Client.SetDefaultHeader(key, value)
SetDefaultHeader ==
    /\ ~applied
    /\ \E k \in HdrKeys, v \in HdrValues : client_Headers' = HSet(client_Headers, k, v)
    /\ UNCHANGED <<offHeaders, b_headers, req_Header, applied>>

\* Client.AddDefaultHeader(key, value)
AddDefaultHeader ==
    /\ ~applied
    /\ \E k \in HdrKeys, v \in HdrValues :
          /\ Len(client_Headers[Canonical(k)]) < MaxHdrVals
          /\ client_Headers' = HAdd(client_Headers, k, v)
    /\ UNCHANGED <<offHeaders, b_headers, req_Header, applied>>

\* Client.DelDefaultHeader(key)
DelDefaultHeader ==
    /\ ~applied
    /\ \E k \in HdrKeys : client_Headers' = HDel(client_Headers, k)
    /\ UNCHANGED <<offHeaders, b_headers, req_Header, applied>>

\* RequestBuilder.Header(key, value)
Header ==
    /\ ~applied
    /\ \E k \in HdrKeys, v \in HdrValues : b_headers' = HSet(b_headers, k, v)
    /\ UNCHANGED <<offHeaders, client_Headers, req_Header, applied>>

\* RequestBuilder.AddHeader(key, value)
AddHeader ==
    /\ ~applied
    /\ \E k \in HdrKeys, v \in HdrValues :
          /\ Len(b_headers[Canonical(k)]) < MaxHdrVals
          /\ b_headers' = HAdd(b_headers, k, v)
    /\ UNCHANGED <<offHeaders, client_Headers, req_Header, applied>>

\* RequestBuilder.DelHeader(key)
DelHeader ==
    /\ ~applied
    /\ \E k \in HdrKeys : b_headers' = HDel(b_headers, k)
    /\ UNCHANGED <<offHeaders, client_Headers, req_Header, applied>>

\* Send: b.applyHeaders(req) on the freshly created request.
ApplyHeaders ==
    /\ ~applied
    /\ req_Header' = applyHeaders(EmptyHeader)
    /\ applied' = TRUE
    /\ UNCHANGED <<offHeaders, client_Headers, b_headers>>

NextHeaders ==
    \/ SetDefaultHeader
    \/ AddDefaultHeader
    \/ DelDefaultHeader
    \/ Header
    \/ AddHeader
    \/ DelHeader
    \/ ApplyHeaders

(***************************************************************************)
(* Concurrency: Sends and setters on one client.  A Send reads the         *)
(* client's headers (applyHeaders), cookies (applyCookies) and middlewares *)
(* (do), in that order; each read takes time.  A setter takes the writer   *)
(* lock, changes one of them, and unlocks.                                 *)
(***************************************************************************)
\* The client fields Send reads, in the order it reads them.
ReadOrder == <<"Headers", "Cookies", "Middlewares">>

\* The setters of the model and the field each changes.
SetterOps == {"SetDefaultHeader", "SetDefaultCookie", "DelDefaultCookie", "AddMiddleware"}
Touches(op) ==
    CASE op = "SetDefaultHeader" -> "Headers"
      [] op \in {"SetDefaultCookie", "DelDefaultCookie"} -> "Cookies"
      [] op = "AddMiddleware" -> "Middlewares"
      [] OTHER -> "none"

\* The arguments a setter may be called with.
SetterArgs(op) ==
    CASE op = "SetDefaultHeader" -> HdrValues
      [] op \in {"SetDefaultCookie", "DelDefaultCookie"} -> CookieNames
      [] OTHER -> {"mw"}

\* A setter is between the first and the last write of its change to field f.
Mutating(f) == \E w \in Setters : setr[w].pc = "mutating" /\ Touches(setr[w].op) = f

\* A Send is in the middle of reading field f.
Reading(f) == \E s \in Senders : snd[s].reading /\ ReadOrder[snd[s].at] = f

\* Whether Send takes c.mu.RLock() around its reads: it takes no lock.
SendTakesReaderLock == FALSE

InitLock ==
    /\ IdleRetryConfig
    /\ client_Middlewares = <<>>
    /\ b_middlewares = <<>>
    /\ IdleClientData /\ IdleHeaders /\ IdleSend /\ IdleLock /\ IdlePool /\ IdleClone /\ IdleExt

offLock == <<client_MaxRetries, client_RetryIf, builderVars, sendVars, hdrVars,
             poolVars, cloneVars, extVars>>

\* Send starts reading the next client field.
SendBeginRead(s) ==
    /\ snd[s].at <= Len(ReadOrder)
    /\ ~snd[s].reading
    /\ IF SendTakesReaderLock
       THEN /\ mu_writer = "none"
            /\ mu_readers' = mu_readers \cup {s}
       ELSE UNCHANGED mu_readers
    /\ snd' = [snd EXCEPT ![s].reading = TRUE,
                          ![s].raced = @ \/ Mutating(ReadOrder[snd[s].at])]
    /\ UNCHANGED <<offLock, client_Middlewares, client_Headers, client_Cookies, mu_writer, setr>>

\* Send finishes reading the field and goes on.
SendEndRead(s) ==
    /\ snd[s].reading
    /\ mu_readers' = mu_readers \ {s}
    /\ snd' = [snd EXCEPT ![s].reading = FALSE, ![s].at = @ + 1]
    /\ UNCHANGED <<offLock, client_Middlewares, client_Headers, client_Cookies, mu_writer, setr>>

\* c.mu.Lock() at the top of a setter.
SetterLock(w) ==
    /\ setr[w].pc = "idle"
    /\ setr[w].calls < MaxSetterCalls
    /\ mu_writer = "none"
    /\ mu_readers = {}
    /\ mu_writer' = w
    /\ \E op \in SetterOps : \E a \in SetterArgs(op) :
          setr' = [setr EXCEPT ![w] = [pc |-> "locked", op |-> op, arg |-> a, calls |-> @.calls + 1]]
    /\ UNCHANGED <<offLock, client_Middlewares, client_Headers, client_Cookies, mu_readers, snd>>

\* The setter starts changing the map or slice.
SetterBeginMutate(w) ==
    /\ setr[w].pc = "locked"
    /\ setr' = [setr EXCEPT ![w].pc = "mutating"]
    /\ snd' = [s \in Senders |->
                 IF snd[s].reading /\ ReadOrder[snd[s].at] = Touches(setr[w].op)
                 THEN [snd[s] EXCEPT !.raced = TRUE] ELSE snd[s]]
    /\ UNCHANGED <<offLock, client_Middlewares, client_Headers, client_Cookies, mu_writer, mu_readers>>

\* The change is complete.
SetterEndMutate(w) ==
    /\ setr[w].pc = "mutating"
    /\ LET op == setr[w].op
           a == setr[w].arg
       IN /\ client_Headers' = IF op = "SetDefaultHeader" THEN HSet(client_Headers, "X-A", a)
                               ELSE client_Headers
          /\ client_Cookies' = CASE op = "SetDefaultCookie" -> Append(client_Cookies, a)
                                 [] op = "DelDefaultCookie" -> DeleteCookie(client_Cookies, a)
                                 [] OTHER -> client_Cookies
          /\ client_Middlewares' = IF op = "AddMiddleware"
                                   THEN Append(client_Middlewares, <<"c", Len(client_Middlewares) + 1>>)
                                   ELSE client_Middlewares
    /\ setr' = [setr EXCEPT ![w].pc = "mutated"]
    /\ UNCHANGED <<offLock, mu_writer, mu_readers, snd>>

\* defer c.mu.Unlock()
SetterUnlock(w) ==
    /\ setr[w].pc = "mutated"
    /\ mu_writer' = "none"
    /\ setr' = [setr EXCEPT ![w].pc = "idle"]
    /\ UNCHANGED <<offLock, client_Middlewares, client_Headers, client_Cookies, mu_readers, snd>>

NextLock ==
    \/ \E s \in Senders : SendBeginRead(s)
    \/ \E s \in Senders : SendEndRead(s)
    \/ \E w \in Setters : SetterLock(w)
    \/ \E w \in Setters : SetterBeginMutate(w)
    \/ \E w \in Setters : SetterEndMutate(w)
    \/ \E w \in Setters : SetterUnlock(w)

(***************************************************************************)
(* Buffered responses: NewResponse -> handleNonStream, run by concurrent   *)
(* Sends that share the package's buffer pool.  A buffer is a backing      *)
(* array and the length of B; Put resets the length and keeps the array.   *)
(***************************************************************************)
\* buf.B: the bytes of the buffer.
B(id) == SubSeq(buf_B[id].arr, 1, buf_B[id].len)

\* The buffers some handleNonStream holds between GetBuffer and PutBuffer.
Held == {rsp[s].buf : s \in {t \in Senders : rsp[t].pc # "idle"}}

\* One byte appended to buf.B: into the backing array where it has room.
WriteByte(bb, x) ==
    [arr |-> IF bb.len < Len(bb.arr)
             THEN [bb.arr EXCEPT ![bb.len + 1] = x]
             ELSE Append(bb.arr, x),
     len |-> bb.len + 1]

\* Mutant: BodyBytes is buf.B itself, not a copy of it.
AliasBufB(id) == [buf |-> id, len |-> buf_B[id].len, bytes |-> <<>>]

\* r.BodyBytes = slices.Clone(buf.B)
CloneBufB(id) == [buf |-> "none", len |-> 0, bytes |-> B(id)]

\* Response.Body(): the bytes BodyBytes denotes now.
Body(bytes) ==
    IF bytes.buf = "none" THEN bytes.bytes
    ELSE SubSeq(buf_B[bytes.buf].arr, 1, bytes.len)

InitPool ==
    /\ IdleRetryConfig
    /\ client_Middlewares = <<>>
    /\ b_middlewares = <<>>
    /\ IdleClientData /\ IdleHeaders /\ IdleSend /\ IdleLock /\ IdlePool /\ IdleClone /\ IdleExt

offPool == <<clientVars, builderVars, sendVars, hdrVars, lockVars, cloneVars, extVars>>

\* NewResponse on a transport response whose body will deliver `wire`;
\* handleNonStream: buf := GetBuffer(), a pooled buffer or a new one.
GetBuffer(s) ==
    /\ rsp[s].pc = "idle"
    /\ Len(responses) + Cardinality({t \in Senders : rsp[t].pc # "idle"}) < MaxSends
    /\ \E wire \in Payloads : \E id \in BufIds \ Held :
          /\ rsp' = [rsp EXCEPT ![s] = [pc |-> "read", wire |-> wire, buf |-> id, n |-> 0,
                                        failed |-> FALSE,
                                        BodyBytes |-> [buf |-> "none", len |-> 0, bytes |-> <<>>]]]
          /\ pool' = pool \ {id}
    /\ UNCHANGED <<offPool, buf_B, responses>>

\* buf.ReadFrom(r.RawResponse.Body): the next byte arrives.
ReadFrom(s) ==
    /\ rsp[s].pc = "read"
    /\ rsp[s].n < Len(rsp[s].wire)
    /\ buf_B' = [buf_B EXCEPT ![rsp[s].buf] = WriteByte(@, rsp[s].wire[rsp[s].n + 1])]
    /\ rsp' = [rsp EXCEPT ![s].n = @ + 1]
    /\ UNCHANGED <<offPool, pool, responses>>

\* ReadFrom returns at end of body; the body is closed.
ReadEOF(s) ==
    /\ rsp[s].pc = "read"
    /\ rsp[s].n = Len(rsp[s].wire)
    /\ rsp' = [rsp EXCEPT ![s].pc = "copy"]
    /\ UNCHANGED <<offPool, pool, buf_B, responses>>

\* ReadFrom returns an error: handleNonStream returns it.
ReadError(s) ==
    /\ rsp[s].pc = "read"
    /\ rsp' = [rsp EXCEPT ![s].pc = "put", ![s].failed = TRUE]
    /\ UNCHANGED <<offPool, pool, buf_B, responses>>

\* r.BodyBytes = slices.Clone(buf.B)
CopyBody(s) ==
    /\ rsp[s].pc = "copy"
    /\ rsp' = [rsp EXCEPT ![s].pc = "put", ![s].BodyBytes = CloneBufB(rsp[s].buf)]
    /\ UNCHANGED <<offPool, pool, buf_B, responses>>

\* defer PutBuffer(buf): the buffer is reset and pooled; NewResponse returns
\* the response, or nil and the read error.
PutBuffer(s) ==
    /\ rsp[s].pc = "put"
    /\ buf_B' = [buf_B EXCEPT ![rsp[s].buf].len = 0]
    /\ pool' = pool \cup {rsp[s].buf}
    /\ responses' = IF rsp[s].failed THEN responses
                    ELSE Append(responses, [wire |-> rsp[s].wire, via |-> rsp[s].buf,
                                            BodyBytes |-> rsp[s].BodyBytes])
    /\ rsp' = [rsp EXCEPT ![s].pc = "idle"]
    /\ UNCHANGED offPool

NextPool ==
    \/ \E s \in Senders : GetBuffer(s)
    \/ \E s \in Senders : ReadFrom(s)
    \/ \E s \in Senders : ReadEOF(s)
    \/ \E s \in Senders : ReadError(s)
    \/ \E s \in Senders : CopyBody(s)
    \/ \E s \in Senders : PutBuffer(s)

(***************************************************************************)
(* Clone: a builder b and c = b.Clone(), with the mutators called on       *)
(* either.  Slices live in a heap of backing arrays, so that what a copy   *)
(* shares with its original is what the code makes it share.               *)
(***************************************************************************)
\* cap(s) and the elements of s
Cap(h, sl) == IF sl.arr = 0 THEN 0 ELSE Len(h[sl.arr])
Elems(h, sl) == IF sl.arr = 0 THEN <<>> ELSE SubSeq(h[sl.arr], 1, sl.len)

\* n zero values
Zeroes(n) == [i \in 1..n |-> ""]

\* The capacity append grows a full slice of capacity c to: 1, 2, 4, 8.
GrowCap(c) == IF c = 0 THEN 1 ELSE 2 * c

\* append(s, v): in place where cap(s) > len(s), else into a new, larger array.
GoAppend(h, sl, v) ==
    IF sl.len < Cap(h, sl)
    THEN [heap |-> [h EXCEPT ![sl.arr][sl.len + 1] = v],
          slice |-> [arr |-> sl.arr, len |-> sl.len + 1]]
    ELSE [heap |-> Append(h, Elems(h, sl) \o <<v>> \o Zeroes(GrowCap(Cap(h, sl)) - sl.len - 1)),
          slice |-> [arr |-> Len(h) + 1, len |-> sl.len + 1]]

\* []string{v}
GoLiteral(h, v) ==
    [heap |-> Append(h, <<v>>), slice |-> [arr |-> Len(h) + 1, len |-> 1]]

\* slices.Clone(s), and the per-key copy of http.Header.Clone: a new array
\* holding the elements of s; nil stays nil.
SlicesClone(h, sl) ==
    IF sl.arr = 0 THEN [heap |-> h, slice |-> NilSlice]
    ELSE [heap |-> Append(h, Elems(h, sl)), slice |-> [arr |-> Len(h) + 1, len |-> sl.len]]

\* maps.Copy(dst, src): dst[k] = src[k], the same slice header.
MapsCopy(h, sl) == [heap |-> h, slice |-> sl]

\* slices.DeleteFunc(s, name matches): the kept elements move to the front
\* of the same array and the vacated tail is zeroed.
GoDeleteFunc(h, sl, x) ==
    IF sl.arr = 0 THEN [heap |-> h, slice |-> sl]
    ELSE LET kept == DeleteCookie(Elems(h, sl), x)
         IN [heap |-> [h EXCEPT ![sl.arr] =
                          kept \o Zeroes(sl.len - Len(kept)) \o SubSeq(@, sl.len + 1, Len(@))],
             slice |-> [arr |-> sl.arr, len |-> Len(kept)]]

\* What a builder holds, as Send would read it.
View(x) ==
    [queries |-> Elems(heap, queries[x]),
     formFields |-> Elems(heap, formFields[x]),
     headers |-> Elems(heap, headers[x]),
     cookies |-> Elems(heap, cookies[x]),
     pathParams |-> pathParams[x]]

Other(x) == IF x = "b" THEN "c" ELSE "b"

InitClone ==
    /\ IdleRetryConfig
    /\ client_Middlewares = <<>>
    /\ b_middlewares = <<>>
    /\ IdleClientData /\ IdleHeaders /\ IdleSend /\ IdleLock /\ IdlePool /\ IdleClone /\ IdleExt

offClone == <<clientVars, builderVars, sendVars, hdrVars, lockVars, poolVars, extVars>>

\* A mutator may be called on x: c exists once Clone has run.
CanCall(x) ==
    IF cloned THEN ops.post < MaxPostOps
    ELSE x = "b" /\ ops.pre < MaxPreOps

Counted == IF cloned THEN [ops EXCEPT !.post = @ + 1] ELSE [ops EXCEPT !.pre = @ + 1]

\* x.Query(QueryKey, v): b.queries.Add(key, value)
Query(x) ==
    /\ CanCall(x)
    /\ \E v \in FieldValues :
          LET r == GoAppend(heap, queries[x], v)
          IN heap' = r.heap /\ queries' = [queries EXCEPT ![x] = r.slice]
    /\ ops' = Counted
    /\ UNCHANGED <<offClone, formFields, headers, cookies, pathParams, cloned>>

\* x.DelQuery(QueryKey)
DelQuery(x) ==
    /\ CanCall(x)
    /\ queries' = [queries EXCEPT ![x] = NilSlice]
    /\ ops' = Counted
    /\ UNCHANGED <<offClone, heap, formFields, headers, cookies, pathParams, cloned>>

\* x.FormField(FormKey, v)
FormField(x) ==
    /\ CanCall(x)
    /\ \E v \in FieldValues :
          LET r == GoAppend(heap, formFields[x], v)
          IN heap' = r.heap /\ formFields' = [formFields EXCEPT ![x] = r.slice]
    /\ ops' = Counted
    /\ UNCHANGED <<offClone, queries, headers, cookies, pathParams, cloned>>

\* x.DelFormField(FormKey)
DelFormField(x) ==
    /\ CanCall(x)
    /\ formFields' = [formFields EXCEPT ![x] = NilSlice]
    /\ ops' = Counted
    /\ UNCHANGED <<offClone, heap, queries, headers, cookies, pathParams, cloned>>

\* x.Header(HeaderKey, v): b.headers.Set(key, value)
BuilderHeader(x) ==
    /\ CanCall(x)
    /\ \E v \in HdrValues :
          LET r == GoLiteral(heap, v)
          IN heap' = r.heap /\ headers' = [headers EXCEPT ![x] = r.slice]
    /\ ops' = Counted
    /\ UNCHANGED <<offClone, queries, formFields, cookies, pathParams, cloned>>

\* x.AddHeader(HeaderKey, v): b.headers.Add(key, value)
BuilderAddHeader(x) ==
    /\ CanCall(x)
    /\ \E v \in HdrValues :
          LET r == GoAppend(heap, headers[x], v)
          IN heap' = r.heap /\ headers' = [headers EXCEPT ![x] = r.slice]
    /\ ops' = Counted
    /\ UNCHANGED <<offClone, queries, formFields, cookies, pathParams, cloned>>

\* x.DelHeader(HeaderKey)
BuilderDelHeader(x) ==
    /\ CanCall(x)
    /\ headers' = [headers EXCEPT ![x] = NilSlice]
    /\ ops' = Counted
    /\ UNCHANGED <<offClone, heap, queries, formFields, cookies, pathParams, cloned>>

\* x.Cookie(name, value): b.cookies = append(b.cookies, ...)
Cookie(x) ==
    /\ CanCall(x)
    /\ \E name \in CookieNames :
          LET r == GoAppend(heap, cookies[x], name)
          IN heap' = r.heap /\ cookies' = [cookies EXCEPT ![x] = r.slice]
    /\ ops' = Counted
    /\ UNCHANGED <<offClone, queries, formFields, headers, pathParams, cloned>>

\* x.DelCookie(name)
DelCookie(x) ==
    /\ CanCall(x)
    /\ \E name \in CookieNames :
          LET r == GoDeleteFunc(heap, cookies[x], name)
          IN heap' = r.heap /\ cookies' = [cookies EXCEPT ![x] = r.slice]
    /\ ops' = Counted
    /\ UNCHANGED <<offClone, queries, formFields, headers, pathParams, cloned>>

\* x.PathParam(ParamKey, v)
PathParam(x) ==
    /\ CanCall(x)
    /\ \E v \in FieldValues : pathParams' = [pathParams EXCEPT ![x] = v]
    /\ ops' = Counted
    /\ UNCHANGED <<offClone, heap, queries, formFields, headers, cookies, cloned>>

\* x.DelPathParam(ParamKey)
DelPathParam(x) ==
    /\ CanCall(x)
    /\ pathParams' = [pathParams EXCEPT ![x] = ""]
    /\ ops' = Counted
    /\ UNCHANGED <<offClone, heap, queries, formFields, headers, cookies, cloned>>

\* c = b.Clone()
Clone ==
    /\ ~cloned
    /\ LET h == SlicesClone(heap, headers["b"])
           c == SlicesClone(h.heap, cookies["b"])
           q == MapsCopy(c.heap, queries["b"])
           f == MapsCopy(q.heap, formFields["b"])
       IN /\ heap' = f.heap
          /\ headers' = [headers EXCEPT !["c"] = h.slice]
          /\ cookies' = [cookies EXCEPT !["c"] = c.slice]
          /\ queries' = [queries EXCEPT !["c"] = q.slice]
          /\ formFields' = [formFields EXCEPT !["c"] = f.slice]
    /\ pathParams' = [pathParams EXCEPT !["c"] = pathParams["b"]]
    /\ cloned' = TRUE
    /\ UNCHANGED <<offClone, ops>>

\* Some mutator is called on builder x.
Mutator(x) ==
    \/ Query(x) \/ DelQuery(x)
    \/ FormField(x) \/ DelFormField(x)
    \/ BuilderHeader(x) \/ BuilderAddHeader(x) \/ BuilderDelHeader(x)
    \/ Cookie(x) \/ DelCookie(x)
    \/ PathParam(x) \/ DelPathParam(x)

NextClone ==
    \/ \E x \in Builders : Query(x)
    \/ \E x \in Builders : DelQuery(x)
    \/ \E x \in Builders : FormField(x)
    \/ \E x \in Builders : DelFormField(x)
    \/ \E x \in Builders : BuilderHeader(x)
    \/ \E x \in Builders : BuilderAddHeader(x)
    \/ \E x \in Builders : BuilderDelHeader(x)
    \/ \E x \in Builders : Cookie(x)
    \/ \E x \in Builders : DelCookie(x)
    \/ \E x \in Builders : PathParam(x)
    \/ \E x \in Builders : DelPathParam(x)
    \/ Clone

(***************************************************************************)
(* Queries: the builder's queries merged into the query of the parsed URL. *)
(***************************************************************************)
\* The value lists a key may hold.
QueryValueLists == UNION {[1..n -> FieldValues] : n \in 0..MaxQVals}

\* url.Values.Set, Add, Del
VSet(q, k, v) == [q EXCEPT ![k] = <<v>>]
VAdd(q, k, v) == [q EXCEPT ![k] = Append(@, v)]
VDel(q, k) == [q EXCEPT ![k] = <<>>]

RECURSIVE SetValues(_, _, _)
\* for _, value := range values { query.Set(key, value) }
SetValues(q, k, vals) ==
    IF vals = <<>> THEN q
    ELSE SetValues(VSet(q, k, Head(vals)), k, Tail(vals))

RECURSIVE MergeQueries(_, _, _)
\* for key, values := range b.queries { ... }, over the keys not yet visited
MergeQueries(q, src, keys) ==
    IF keys = {} THEN q
    ELSE LET k == CHOOSE x \in keys : TRUE
         IN MergeQueries(SetValues(q, k, src[k]), src, keys \ {k})

\* client.NewRequestBuilder(method, path): the path may carry a query.
InitQuery ==
    /\ IdleBase /\ IdleStream /\ IdleProxy /\ IdleRedirect /\ IdleNoProxy /\ IdleBackoff /\ IdleResponse /\ IdleDel /\ IdleValid /\ IdleInfer /\ IdleCache /\ IdleMem /\ IdleStrategy /\ IdleSendCtx /\ IdleEnc /\ IdleShare
    /\ url_query \in [QKeys -> QueryValueLists]
    /\ b_queries = EmptyQuery
    /\ raw_query = EmptyQuery
    /\ merged = FALSE

offQuery == <<baseVars, streamVars, proxyVars, redirectVars, noProxyVars, backoffVars, responseVars, delVars, validVars, inferVars, cacheVars, memVars, strategyVars, sendCtxVars, encVars, shareVars>>

\* b.Query(key, value): b.queries.Add(key, value)
BQuery ==
    /\ ~merged
    /\ \E k \in QKeys, v \in FieldValues :
          /\ Len(b_queries[k]) < MaxQVals
          /\ b_queries' = VAdd(b_queries, k, v)
    /\ UNCHANGED <<offQuery, url_query, raw_query, merged>>

\* b.DelQuery(key)
BDelQuery ==
    /\ ~merged
    /\ \E k \in QKeys : b_queries' = VDel(b_queries, k)
    /\ UNCHANGED <<offQuery, url_query, raw_query, merged>>

\* Send: query := parsedURL.Query(); the merge; parsedURL.RawQuery = query.Encode()
SendMergeQueries ==
    /\ ~merged
    /\ raw_query' = MergeQueries(url_query, b_queries, QKeys)
    /\ merged' = TRUE
    /\ UNCHANGED <<offQuery, url_query, b_queries>>

NextQuery ==
    \/ BQuery
    \/ BDelQuery
    \/ SendMergeQueries

(***************************************************************************)
(* Streaming: the worker NewResponse starts when a chunk callback is set.  *)
(* bufio.Scanner with ScanLines hands over one line per Scan; a line that  *)
(* does not fit the buffer ends the scan with ErrTooLong; a failed read    *)
(* ends it with the read error, after the bytes already read of the        *)
(* current line have been handed over as a last token.                     *)
(***************************************************************************)
\* The bodies of the model.
StreamBodies == UNION {[1..n -> StreamRecords] : n \in 0..MaxRecords}

\* Mutant: the loop goes on after a callback error.
BreakNever(cbErr) == FALSE

\* if err := r.stream(scanner.Bytes()); err != nil { break }
BreaksLoop(cbErr) == cbErr

\* Mutant: the done callback runs only after a clean end.
DoneOnlyOnCleanEnd(scanErr) == st_cb.done /\ scanErr = "nil"

\* if r.streamDone != nil { r.streamDone() }
CallsDone(scanErr) == st_cb.done

\* if err := scanner.Err(); err != nil && r.streamErr != nil { r.streamErr(err) }
CallsErr(scanErr) == scanErr # "nil" /\ st_cb.err

\* NewResponse with response.stream != nil: go response.handleStream()
InitStream ==
    /\ IdleBase /\ IdleQuery /\ IdleProxy /\ IdleRedirect /\ IdleNoProxy /\ IdleBackoff /\ IdleResponse /\ IdleDel /\ IdleValid /\ IdleInfer /\ IdleCache /\ IdleMem /\ IdleStrategy /\ IdleSendCtx /\ IdleEnc /\ IdleShare
    /\ st_body \in StreamBodies
    /\ st_cb \in [err : BOOLEAN, done : BOOLEAN]
    /\ st_pc = "scan"
    /\ st_pos = 0
    /\ st_scanErr = "nil"
    /\ st_cbFailed = FALSE
    /\ st_log = <<>>
    /\ st_closed = FALSE

offStream == <<baseVars, queryVars, proxyVars, redirectVars, noProxyVars, backoffVars, responseVars, delVars, validVars, inferVars, cacheVars, memVars, strategyVars, sendCtxVars, encVars, shareVars>>

\* scanner.Scan() returns a line; the chunk callback runs on it and returns
\* nil or an error.
ScanRecord ==
    /\ st_pc = "scan"
    /\ st_pos < Len(st_body)
    /\ st_body[st_pos + 1] # "LONG"
    /\ st_pos' = st_pos + 1
    /\ st_log' = Append(st_log, <<"chunk", st_body[st_pos + 1]>>)
    /\ \E cbErr \in BOOLEAN :
          /\ st_cbFailed' = cbErr
          /\ st_pc' = IF BreaksLoop(cbErr) THEN "after" ELSE "scan"
    /\ UNCHANGED <<offStream, st_body, st_cb, st_scanErr, st_closed>>

\* scanner.Scan() returns false: the next line does not fit the buffer.
ScanTooLong ==
    /\ st_pc = "scan"
    /\ st_pos < Len(st_body)
    /\ st_body[st_pos + 1] = "LONG"
    /\ st_scanErr' = "TooLong"
    /\ st_pc' = "after"
    /\ UNCHANGED <<offStream, st_body, st_cb, st_pos, st_cbFailed, st_log, st_closed>>

\* scanner.Scan() returns false at the end of the body.
ScanEOF ==
    /\ st_pc = "scan"
    /\ st_pos = Len(st_body)
    /\ st_pc' = "after"
    /\ UNCHANGED <<offStream, st_body, st_cb, st_pos, st_scanErr, st_cbFailed, st_log, st_closed>>

\* A read of the body fails between two lines: Scan returns false.
ScanReadError ==
    /\ st_pc = "scan"
    /\ st_scanErr' = "read"
    /\ st_pc' = "after"
    /\ UNCHANGED <<offStream, st_body, st_cb, st_pos, st_cbFailed, st_log, st_closed>>

\* A read of the body fails inside a line: Scan returns the bytes read of
\* that line as a token, the callback runs on them, and the next Scan
\* returns false (or the callback's error breaks the loop).
ScanReadErrorInLine ==
    /\ st_pc = "scan"
    /\ st_pos < Len(st_body)
    /\ st_scanErr' = "read"
    /\ st_log' = Append(st_log, <<"part", st_body[st_pos + 1]>>)
    /\ \E cbErr \in BOOLEAN : st_cbFailed' = cbErr
    /\ st_pc' = "after"
    /\ UNCHANGED <<offStream, st_body, st_cb, st_pos, st_closed>>

\* After the loop: the error callback on a scanner error.
StreamErrStep ==
    /\ st_pc = "after"
    /\ st_log' = IF CallsErr(st_scanErr) THEN Append(st_log, <<"err", st_scanErr>>) ELSE st_log
    /\ st_pc' = "done"
    /\ UNCHANGED <<offStream, st_body, st_cb, st_pos, st_scanErr, st_cbFailed, st_closed>>

\* The done callback.
StreamDoneStep ==
    /\ st_pc = "done"
    /\ st_log' = IF CallsDone(st_scanErr) THEN Append(st_log, <<"done", "">>) ELSE st_log
    /\ st_pc' = "close"
    /\ UNCHANGED <<offStream, st_body, st_cb, st_pos, st_scanErr, st_cbFailed, st_closed>>

\* The deferred r.RawResponse.Body.Close()
StreamClose ==
    /\ st_pc = "close"
    /\ st_closed' = TRUE
    /\ st_pc' = "end"
    /\ UNCHANGED <<offStream, st_body, st_cb, st_pos, st_scanErr, st_cbFailed, st_log>>

NextStream ==
    \/ ScanRecord
    \/ ScanTooLong
    \/ ScanEOF
    \/ ScanReadError
    \/ ScanReadErrorInLine
    \/ StreamErrStep
    \/ StreamDoneStep
    \/ StreamClose

(***************************************************************************)
(* Round-robin proxies: the selector RoundRobinProxies returns, called by  *)
(* several goroutines.  counter.Add(1) is one atomic step; indexing the    *)
(* list and returning is a later step of the same call.  The counter is a  *)
(* uint64: it does not wrap within the calls of the model.                 *)
(***************************************************************************)
\* RoundRobinProxies(proxyURLs...)
InitProxy ==
    /\ IdleBase /\ IdleQuery /\ IdleStream /\ IdleRedirect /\ IdleNoProxy /\ IdleBackoff /\ IdleResponse /\ IdleDel /\ IdleValid /\ IdleInfer /\ IdleCache /\ IdleMem /\ IdleStrategy /\ IdleSendCtx /\ IdleEnc /\ IdleShare
    /\ rr_proxies \in ProxyLists
    /\ rr_counter = 0
    /\ rr_call = [g \in ProxyCallers |-> [pc |-> "idle", idx |-> 0]]
    /\ rr_taken = <<>>
    /\ rr_returned = {}

offProxy == <<baseVars, queryVars, streamVars, redirectVars, noProxyVars, backoffVars, responseVars, delVars, validVars, inferVars, cacheVars, memVars, strategyVars, sendCtxVars, encVars, shareVars>>

\* idx := counter.Add(1) - 1
SelectorAdd(g) ==
    /\ rr_call[g].pc = "idle"
    /\ Len(rr_taken) < MaxProxyCalls
    /\ rr_counter' = CounterAdd(rr_counter)
    /\ rr_call' = [rr_call EXCEPT ![g] = [pc |-> "picked", idx |-> rr_counter' - 1]]
    /\ rr_taken' = Append(rr_taken, rr_counter' - 1)
    /\ UNCHANGED <<offProxy, rr_proxies, rr_returned>>

\* return proxies[idx%n], nil
SelectorReturn(g) ==
    /\ rr_call[g].pc = "picked"
    /\ rr_returned' = rr_returned \cup
          {[g |-> g, idx |-> rr_call[g].idx, proxy |-> ProxyAt(rr_proxies, rr_call[g].idx)]}
    /\ rr_call' = [rr_call EXCEPT ![g].pc = "idle"]
    /\ UNCHANGED <<offProxy, rr_proxies, rr_counter, rr_taken>>

NextProxy ==
    \/ \E g \in ProxyCallers : SelectorAdd(g)
    \/ \E g \in ProxyCallers : SelectorReturn(g)

(***************************************************************************)
(* Redirect policies.  SetRedirectPolicy installs the policy as the        *)
(* CheckRedirect hook of the HTTP client.  When a response is a redirect,  *)
(* the HTTP client builds the follow-up request (method by the status,     *)
(* headers copied from the first request, Response = the redirect          *)
(* response it follows) and calls the hook with it and with via, the       *)
(* requests made already.  A request is a record: host (URL.Host), scheme, *)
(* method, body (Body # nil), len (ContentLength), hdr (the header names   *)
(* it carries; every value comes from the first request), resp (the status *)
(* of the response that created it, 0 for the first request).              *)
(***************************************************************************)
sensitiveHeaders ==
    {"Authorization", "Cookie", "Cookie2", "Proxy-Authorization", "Www-Authenticate"}

payloadHeaders ==
    {"Content-Type", "Content-Length", "Content-Encoding", "Transfer-Encoding"}

\* getHostname: the port is split off and the name lower-cased.
getHostname(host) == IF host = "A.COM:8443" THEN "a.com" ELSE host

\* Mutant: the sensitive headers are kept on every hop.
KeepSensitiveHeaders(h) == h

\* stripSensitiveHeaders(h)
stripSensitiveHeaders(h) == h \ sensitiveHeaders

\* dropPayloadHeaders(h)
dropPayloadHeaders(h) == h \ payloadHeaders

\* sameHost && !schemeDowngrade
SameHostNoDowngrade(cur, pre) ==
    /\ getHostname(cur.host) = getHostname(pre.host)
    /\ ~(pre.scheme = "https" /\ cur.scheme = "http")

\* checkHostAndAddHeaders(cur, pre): maps.Copy(cur.Header, pre.Header), or
\* stripSensitiveHeaders(cur.Header).
checkHostAndAddHeaders(cur, pre) ==
    IF SameHostNoDowngrade(cur, pre)
    THEN [cur EXCEPT !.hdr = cur.hdr \cup pre.hdr]
    ELSE [cur EXCEPT !.hdr = stripSensitiveHeaders(cur.hdr)]

\* len(via) >= numberRedirects, len(via) >= maxRedirects
CapReached(limit, via) == Len(via) >= limit

\* AllowRedirectPolicy.Apply past the cap check.
AllowRedirectPolicyApply(req, via) == checkHostAndAddHeaders(req, via[1])

\* The switch on prev.Response.StatusCode.
Downgrades(prevResp, method) ==
    /\ prevResp # 0
    /\ \/ prevResp \in {301, 302} /\ method = "POST"
       \/ prevResp = 303 /\ method # "HEAD"

\* SmartRedirectPolicy.Apply past the cap check.
SmartRedirectPolicyApply(req, via) ==
    LET prev == via[Len(via)]
        cur == checkHostAndAddHeaders(req, prev)
    IN  IF Downgrades(prev.resp, cur.method)
        THEN [cur EXCEPT !.method = "GET", !.body = FALSE, !.len = 0,
                         !.hdr = dropPayloadHeaders(cur.hdr)]
        ELSE cur

\* The policies of the CheckRedirect hook, in order: here one policy.
PolicyApply(policy, req, via) ==
    IF policy.kind = "allow" THEN AllowRedirectPolicyApply(req, via)
    ELSE SmartRedirectPolicyApply(req, via)

\* net/http: the method of the follow-up request (301, 302, 303 turn every
\* method but GET and HEAD into GET) and whether it carries the body.
StdlibMethod(status, method) ==
    IF status \in {301, 302, 303} /\ method \notin {"GET", "HEAD"} THEN "GET"
    ELSE method

StdlibIncludesBody(status) == status = 307

\* net/http: dest is the domain of the other host or a subdomain of it.
IsDomainOrSubdomain(dest, other) ==
    \/ getHostname(dest) = getHostname(other)
    \/ getHostname(dest) = "sub.a.com" /\ getHostname(other) = "a.com"

\* net/http: the header names it holds to be sensitive.
StdlibSensitive(stdlib) ==
    IF stdlib = "sticky"
    THEN {"Authorization", "Www-Authenticate", "Cookie", "Cookie2", "Proxy-Authorization"}
    ELSE {"Authorization", "Www-Authenticate", "Cookie", "Cookie2"}

\* net/http: whether the follow-up request to host goes without the
\* sensitive headers of the first request.  The newer copier compares with
\* the first request and never copies them again once it has stripped them;
\* the older one compares with the previous request.
StdlibStrips(host) ==
    IF rd_stdlib = "sticky"
    THEN rd_strip \/ (rd_via[1].host # host /\ ~IsDomainOrSubdomain(host, rd_via[1].host))
    ELSE ~IsDomainOrSubdomain(host, rd_via[Len(rd_via)].host)

\* net/http: the follow-up request handed to CheckRedirect.
StdlibFollowUp(status, host, scheme) ==
    LET ireq == rd_via[1]
        last == rd_via[Len(rd_via)]
        withBody == StdlibIncludesBody(status) /\ ireq.body
    IN  [host |-> host, scheme |-> scheme,
         method |-> StdlibMethod(status, last.method),
         body |-> withBody,
         len |-> IF withBody THEN ireq.len ELSE 0,
         hdr |-> IF StdlibStrips(host) THEN ireq.hdr \ StdlibSensitive(rd_stdlib)
                 ELSE ireq.hdr,
         resp |-> status]

\* client.SetRedirectPolicy(NewAllowRedirectPolicy(n)) or
\* client.SetRedirectPolicy(NewSmartRedirectPolicy(n)), and the first request
\* of a Do.
InitRedirect ==
    /\ IdleBase /\ IdleQuery /\ IdleStream /\ IdleProxy /\ IdleNoProxy /\ IdleBackoff /\ IdleResponse /\ IdleDel /\ IdleValid /\ IdleInfer /\ IdleCache /\ IdleMem /\ IdleStrategy /\ IdleSendCtx /\ IdleEnc /\ IdleShare
    /\ rd_policy \in [kind : {"allow", "smart"}, limit : RedirectLimits]
    /\ rd_stdlib \in {"sticky", "previous"}
    /\ \E m \in RedirectMethods, h \in OriginalHeaders :
          rd_via = << [host |-> "a.com", scheme |-> "https", method |-> m,
                       body |-> m \in {"POST", "PUT"},
                       len |-> IF m \in {"POST", "PUT"} THEN 1 ELSE 0,
                       hdr |-> h, resp |-> 0] >>
    /\ rd_strip = FALSE
    /\ rd_handed = <<>>
    /\ rd_err = "nil"
    /\ rd_done = FALSE

offRedirect == <<baseVars, queryVars, streamVars, proxyVars, noProxyVars, backoffVars, responseVars, delVars, validVars, inferVars, cacheVars, memVars, strategyVars, sendCtxVars, encVars, shareVars>>

\* A redirect response the policy accepts: Apply returns nil and the
\* follow-up request is sent.
CheckRedirectAccepts(status, host, scheme) ==
    /\ ~rd_done
    /\ ~CapReached(rd_policy.limit, rd_via)
    /\ LET req == StdlibFollowUp(status, host, scheme)
       IN  /\ rd_handed' = <<req>>
           /\ rd_via' = Append(rd_via, PolicyApply(rd_policy, req, rd_via))
    /\ rd_strip' = (rd_stdlib = "sticky" /\ StdlibStrips(host))
    /\ UNCHANGED <<rd_policy, rd_stdlib, rd_err, rd_done>>
    /\ UNCHANGED offRedirect

\* A redirect response the policy rejects: Apply returns the error that
\* wraps ErrTooManyRedirects before it reads the follow-up request, and Do
\* returns it; no follow-up request is sent.
CheckRedirectRejects ==
    /\ ~rd_done
    /\ CapReached(rd_policy.limit, rd_via)
    /\ rd_handed' = <<>>
    /\ rd_err' = "ErrTooManyRedirects"
    /\ rd_done' = TRUE
    /\ UNCHANGED <<rd_policy, rd_stdlib, rd_via, rd_strip>>
    /\ UNCHANGED offRedirect

\* A response that is no redirect: Do returns it.
FinalResponse ==
    /\ ~rd_done
    /\ rd_done' = TRUE
    /\ UNCHANGED <<rd_policy, rd_stdlib, rd_via, rd_strip, rd_handed, rd_err>>
    /\ UNCHANGED offRedirect

NextRedirect ==
    \/ \E status \in RedirectStatuses, host \in RedirectHosts, scheme \in RedirectSchemes :
          CheckRedirectAccepts(status, host, scheme)
    \/ CheckRedirectRejects
    \/ FinalResponse

(***************************************************************************)
(* NO_PROXY: SetProxyWithBypass parses the bypass list once, and the        *)
(* transport's Proxy function asks np.matches(req.URL.Host) for every       *)
(* request.                                                                 *)
(***************************************************************************)
Digits == {"0", "1", "2", "8"}

\* strings.ToLower
LowerChar(ch) ==
    CASE ch = "E" -> "e" [] ch = "C" -> "c" [] ch = "S" -> "s" [] OTHER -> ch

ToLower(s) == [i \in 1..Len(s) |-> LowerChar(s[i])]

\* strings.HasPrefix, strings.HasSuffix
HasPrefix(s, p) == Len(p) <= Len(s) /\ SubSeq(s, 1, Len(p)) = p

HasSuffix(s, p) == Len(p) <= Len(s) /\ SubSeq(s, Len(s) - Len(p) + 1, Len(s)) = p

\* The last, and the first, position of a character in s; 0 if there is none.
LastIndex(s, ch) ==
    IF \E i \in 1..Len(s) : s[i] = ch
    THEN CHOOSE i \in 1..Len(s) : s[i] = ch /\ \A j \in (i + 1)..Len(s) : s[j] # ch
    ELSE 0

FirstIndex(s, ch) ==
    IF \E i \in 1..Len(s) : s[i] = ch
    THEN CHOOSE i \in 1..Len(s) : s[i] = ch /\ \A j \in 1..(i - 1) : s[j] # ch
    ELSE 0

\* net.SplitHostPort: the host before the last colon, with the brackets of
\* "[host]:port" removed; an error without a port, with a bracket that the
\* colon does not follow, or with a second colon outside brackets.
SplitHostPort(hostport) ==
    LET i == LastIndex(hostport, ":")
        end == FirstIndex(hostport, "]")
        fail == [ok |-> FALSE, host |-> <<>>]
    IN  IF i = 0 THEN fail
        ELSE IF hostport[1] = "["
        THEN IF end = 0 \/ end + 1 # i THEN fail
             ELSE [ok |-> TRUE, host |-> SubSeq(hostport, 2, end - 1)]
        ELSE IF FirstIndex(SubSeq(hostport, 1, i - 1), ":") # 0 THEN fail
             ELSE [ok |-> TRUE, host |-> SubSeq(hostport, 1, i - 1)]

\* net.ParseIP(s) != nil
IsIP(s) ==
    \/ Len(s) = 3 /\ s[1] \in Digits /\ s[2] = "." /\ s[3] \in Digits
    \/ s = <<":", ":", "1">>

\* net.ParseCIDR(s) succeeds
IsCIDR(s) ==
    /\ Len(s) = 5
    /\ IsIP(SubSeq(s, 1, 3))
    /\ s[1] \in Digits
    /\ s[4] = "/"
    /\ s[5] = "8"

\* cidr.Contains(ip): the first octet is the network's
CIDRContains(cidr, ip) == Len(ip) = 3 /\ ip[2] = "." /\ ip[1] = cidr[1]

\* parseNoProxy: the loop over the entries, from entry i on.
RECURSIVE parseEntries(_, _, _)
parseEntries(entries, i, np) ==
    IF i > Len(entries) THEN np
    ELSE LET entry == entries[i]
         IN  IF entry = <<"*">> THEN [np EXCEPT !.wildcard = TRUE]
             ELSE IF IsCIDR(entry)
             THEN parseEntries(entries, i + 1, [np EXCEPT !.cidrs = Append(@, entry)])
             ELSE IF IsIP(entry)
             THEN parseEntries(entries, i + 1, [np EXCEPT !.ips = Append(@, entry)])
             ELSE parseEntries(entries, i + 1,
                               [np EXCEPT !.domains = Append(@, ToLower(entry))])

parseNoProxy(entries) ==
    parseEntries(entries, 1, [domains |-> <<>>, ips |-> <<>>, cidrs |-> <<>>,
                              wildcard |-> FALSE])

\* An entry with a leading dot: strings.HasSuffix(hostname, d)
LeadingDotMatches(hostname, d) == HasSuffix(hostname, d)

\* One domain rule of matches.
DomainMatches(hostname, d) ==
    IF HasPrefix(d, <<".">>)
    THEN LeadingDotMatches(hostname, d)
    ELSE hostname = d \/ HasSuffix(hostname, <<".">> \o d)

\* NoProxy.matches for a non-nil np.
matches(np, host) ==
    IF np.wildcard THEN TRUE
    ELSE LET split == SplitHostPort(host)
             hostname == ToLower(IF split.ok THEN split.host ELSE host)
         IN  IF IsIP(hostname)
             THEN \/ \E i \in 1..Len(np.ips) : np.ips[i] = hostname
                  \/ \E i \in 1..Len(np.cidrs) : CIDRContains(np.cidrs[i], hostname)
             ELSE \E i \in 1..Len(np.domains) : DomainMatches(hostname, np.domains[i])

\* The bypass lists: up to MaxBypassEntries entries.
BypassLists ==
    UNION { [1..n -> BypassEntries] : n \in 0..MaxBypassEntries }

\* SetProxyWithBypass(proxyURL, bypass) is called with some bypass list.
InitNoProxy ==
    /\ IdleBase /\ IdleQuery /\ IdleStream /\ IdleProxy /\ IdleRedirect /\ IdleBackoff /\ IdleResponse /\ IdleDel /\ IdleValid /\ IdleInfer /\ IdleCache /\ IdleMem /\ IdleStrategy /\ IdleSendCtx /\ IdleEnc /\ IdleShare
    /\ np_bypass \in BypassLists
    /\ np_parsed = <<>>
    /\ np_host = <<>>
    /\ np_result = "none"

offNoProxy == <<baseVars, queryVars, streamVars, proxyVars, redirectVars, backoffVars, responseVars, delVars, validVars, inferVars, cacheVars, memVars, strategyVars, sendCtxVars, encVars, shareVars>>

\* np := parseNoProxy(bypass)
ParseBypass ==
    /\ np_parsed = <<>>
    /\ np_parsed' = <<parseNoProxy(np_bypass)>>
    /\ UNCHANGED <<np_bypass, np_host, np_result>>
    /\ UNCHANGED offNoProxy

\* transport.Proxy(req): np.matches(req.URL.Host)
ProxyAsksBypass(host) ==
    /\ np_parsed # <<>>
    /\ np_host' = host
    /\ np_result' = IF matches(np_parsed[1], host) THEN "true" ELSE "false"
    /\ UNCHANGED <<np_bypass, np_parsed>>
    /\ UNCHANGED offNoProxy

NextNoProxy ==
    \/ ParseBypass
    \/ \E host \in ProxyHosts : ProxyAsksBypass(host)

(***************************************************************************)
(* NewResponse and the accessors of the response it returns.  The worker   *)
(* of a streaming response is the one of the streaming section; the        *)
(* accessors run while it runs.  A length is counted in records.           *)
(***************************************************************************)
\* The decoders of ScanJSON, ScanXML, ScanYAML.
Decoders == {"JSON", "XML", "YAML"}

\* Mutant: any of the three callbacks selects streaming.
AnyCallbackSet(stream, cb) == stream \/ cb.err \/ cb.done

\* if response.stream != nil
SelectsStreaming(stream, cb) == stream

\* r.BodyBytes = slices.Clone(buf.B): buf.B is not nil after ReadFrom.
Bytes(body) == [nil |-> FALSE, b |-> body]

\* ContentLength()
ContentLengthOf(bb) == IF bb.nil THEN 0 ELSE Len(bb.b)

\* Mutant: the decoder runs on the bytes whether they are nil or not.
ScanWithoutNilCheck(bb, ok) ==
    [target |-> IF ok THEN "decoded" ELSE "partial", err |-> ~ok]

\* ScanJSON, ScanXML, ScanYAML: nil for nil bytes, else the decoder's result.
\* ok: the decoder accepts the bytes.
ScanOf(bb, ok) ==
    IF bb.nil THEN [target |-> "untouched", err |-> FALSE]
    ELSE [target |-> IF ok THEN "decoded" ELSE "partial", err |-> ~ok]

\* bufio.Scanner over the bytes, default buffer: the lines before the first
\* one that does not fit.
RECURSIVE ScannedLines(_)
ScannedLines(b) ==
    IF b = <<>> \/ Head(b) = "LONG" THEN <<>>
    ELSE <<Head(b)>> \o ScannedLines(Tail(b))

\* Lines(): nothing for nil bytes, else the scanned lines.
LinesOf(bb) == IF bb.nil THEN <<>> ELSE ScannedLines(bb.b)

InitResponse ==
    /\ IdleBase /\ IdleQuery /\ IdleProxy /\ IdleRedirect /\ IdleNoProxy /\ IdleBackoff /\ IdleDel /\ IdleValid /\ IdleInfer /\ IdleCache /\ IdleMem /\ IdleStrategy /\ IdleSendCtx /\ IdleEnc /\ IdleShare
    /\ st_body \in StreamBodies
    /\ st_cb = [err |-> FALSE, done |-> FALSE]
    /\ st_pc = "idle"
    /\ st_pos = 0
    /\ st_scanErr = "nil"
    /\ st_cbFailed = FALSE
    /\ st_log = <<>>
    /\ st_closed = FALSE
    /\ IdleResponse

offResponse == <<baseVars, queryVars, proxyVars, redirectVars, noProxyVars, backoffVars, delVars, validVars, inferVars, cacheVars, memVars, strategyVars, sendCtxVars, encVars, shareVars>>

\* b.Stream(callback)
BStream ==
    /\ nr_pc = "build"
    /\ ~nr_stream
    /\ nr_stream' = TRUE
    /\ UNCHANGED <<offResponse, streamVars, nr_pc, nr_workers, nr_BodyBytes, nr_last>>

\* b.StreamErr(callback)
BStreamErr ==
    /\ nr_pc = "build"
    /\ ~st_cb.err
    /\ st_cb' = [st_cb EXCEPT !.err = TRUE]
    /\ UNCHANGED <<offResponse, responseVars, st_body, st_pc, st_pos, st_scanErr, st_cbFailed, st_log, st_closed>>

\* b.StreamDone(callback)
BStreamDone ==
    /\ nr_pc = "build"
    /\ ~st_cb.done
    /\ st_cb' = [st_cb EXCEPT !.done = TRUE]
    /\ UNCHANGED <<offResponse, responseVars, st_body, st_pc, st_pos, st_scanErr, st_cbFailed, st_log, st_closed>>

\* NewResponse(ctx, resp, client, stream, streamErr, streamDone): the worker
\* is started, or the body is read to its end here; a failed read returns
\* nil and the error, and leaves the body open.
NewResponse ==
    /\ nr_pc = "build"
    /\ IF SelectsStreaming(nr_stream, st_cb)
       THEN /\ nr_workers' = nr_workers + 1
            /\ st_pc' = "scan"
            /\ nr_pc' = "returned"
            /\ UNCHANGED <<nr_BodyBytes, st_closed>>
       ELSE /\ \E readFails \in BOOLEAN :
                  IF readFails
                  THEN /\ nr_pc' = "failed"
                       /\ UNCHANGED <<nr_BodyBytes, st_closed>>
                  ELSE /\ nr_BodyBytes' = Bytes(st_body)
                       /\ st_closed' = TRUE
                       /\ nr_pc' = "returned"
            /\ UNCHANGED <<nr_workers, st_pc>>
    /\ UNCHANGED <<offResponse, nr_stream, nr_last, st_body, st_cb, st_pos, st_scanErr, st_cbFailed, st_log>>

\* r.Body()
CallBody ==
    /\ nr_pc = "returned"
    /\ nr_last' = [NoCall EXCEPT !.op = "Body", !.body = nr_BodyBytes]
    /\ UNCHANGED <<offResponse, streamVars, nr_stream, nr_pc, nr_workers, nr_BodyBytes>>

\* r.ContentLength()
CallContentLength ==
    /\ nr_pc = "returned"
    /\ nr_last' = [NoCall EXCEPT !.op = "ContentLength", !.n = ContentLengthOf(nr_BodyBytes)]
    /\ UNCHANGED <<offResponse, streamVars, nr_stream, nr_pc, nr_workers, nr_BodyBytes>>

\* r.ScanJSON(v), r.ScanXML(v), r.ScanYAML(v)
CallScan ==
    /\ nr_pc = "returned"
    /\ \E d \in Decoders, ok \in BOOLEAN :
          nr_last' = [NoCall EXCEPT !.op = d,
                                    !.target = ScanOf(nr_BodyBytes, ok).target,
                                    !.err = ScanOf(nr_BodyBytes, ok).err]
    /\ UNCHANGED <<offResponse, streamVars, nr_stream, nr_pc, nr_workers, nr_BodyBytes>>

\* for line := range r.Lines()
CallLines ==
    /\ nr_pc = "returned"
    /\ nr_last' = [NoCall EXCEPT !.op = "Lines", !.lines = LinesOf(nr_BodyBytes)]
    /\ UNCHANGED <<offResponse, streamVars, nr_stream, nr_pc, nr_workers, nr_BodyBytes>>

NextResponse ==
    \/ BStream
    \/ BStreamErr
    \/ BStreamDone
    \/ NewResponse
    \/ NextStream
    \/ CallBody
    \/ CallContentLength
    \/ CallScan
    \/ CallLines

(***************************************************************************)
(* DelCookie and DelFile: slices.DeleteFunc over the builder's lists.      *)
(***************************************************************************)
\* The key lists of a variadic call.
KeyLists(names) == UNION {[1..n -> names] : n \in 0..MaxDelKeys}

\* slices.Contains(key, name)
Contains(key, name) == \E i \in 1..Len(key) : key[i] = name

\* slices.IndexFunc: the first element to delete, 0 for none.
RECURSIVE IndexFunc(_, _, _)
IndexFunc(s, key, i) ==
    IF i > Len(s) THEN 0
    ELSE IF Contains(key, s[i].Name) THEN i
    ELSE IndexFunc(s, key, i + 1)

\* The loop of slices.DeleteFunc: s[j] moves down to s[i] when it is kept;
\* the result is s[:i].
RECURSIVE Compact(_, _, _, _)
Compact(s, key, i, j) ==
    IF j > Len(s) THEN SubSeq(s, 1, i - 1)
    ELSE IF Contains(key, s[j].Name) THEN Compact(s, key, i, j + 1)
    ELSE Compact([s EXCEPT ![i] = s[j]], key, i + 1, j + 1)

\* Mutant: the element after a deleted one is not looked at.
RECURSIVE DeleteSkippingNext(_, _)
DeleteSkippingNext(s, key) ==
    IF s = <<>> THEN <<>>
    ELSE IF ~Contains(key, Head(s).Name) THEN <<Head(s)>> \o DeleteSkippingNext(Tail(s), key)
    ELSE IF Len(s) = 1 THEN <<>>
    ELSE <<s[2]>> \o DeleteSkippingNext(Tail(Tail(s)), key)

\* slices.DeleteFunc(s, func(c) bool { return slices.Contains(key, c.Name) })
DeleteFunc(s, key) ==
    LET i == IndexFunc(s, key, 1)
    IN IF i = 0 THEN s ELSE Compact(s, key, i, i + 1)

InitDel ==
    /\ IdleBase /\ IdleQuery /\ IdleStream /\ IdleProxy /\ IdleRedirect /\ IdleNoProxy /\ IdleBackoff /\ IdleResponse /\ IdleValid /\ IdleInfer /\ IdleCache /\ IdleMem /\ IdleStrategy /\ IdleSendCtx /\ IdleEnc /\ IdleShare
    /\ IdleDel

offDel == <<baseVars, queryVars, streamVars, proxyVars, redirectVars, noProxyVars, backoffVars, responseVars, validVars, inferVars, cacheVars, memVars, strategyVars, sendCtxVars, encVars, shareVars>>

\* b.Cookie(key, value)
CookieAdd ==
    /\ dl_n < MaxAdds
    /\ \E k \in CookieNames :
          dl_cookies' = Append(dl_cookies, [Name |-> k, id |-> dl_n + 1])
    /\ dl_n' = dl_n + 1
    /\ dl_prev' = [cookies |-> dl_cookies, files |-> dl_files]
    /\ dl_op' = [op |-> "Cookie", keys |-> <<>>]
    /\ UNCHANGED <<offDel, dl_files>>

\* b.File(key, filename, content)
FileAdd ==
    /\ dl_n < MaxAdds
    /\ \E k \in FileNames :
          dl_files' = Append(dl_files, [Name |-> k, id |-> dl_n + 1])
    /\ dl_n' = dl_n + 1
    /\ dl_prev' = [cookies |-> dl_cookies, files |-> dl_files]
    /\ dl_op' = [op |-> "File", keys |-> <<>>]
    /\ UNCHANGED <<offDel, dl_cookies>>

\* b.DelCookie(key...)
DelCookieKeys ==
    /\ \E key \in KeyLists(CookieNames) :
          /\ dl_cookies' = IF dl_cookies = <<>> THEN dl_cookies
                           ELSE DeleteFunc(dl_cookies, key)
          /\ dl_op' = [op |-> "DelCookie", keys |-> key]
    /\ dl_prev' = [cookies |-> dl_cookies, files |-> dl_files]
    /\ UNCHANGED <<offDel, dl_files, dl_n>>

\* b.DelFile(key...)
DelFileKeys ==
    /\ \E key \in KeyLists(FileNames) :
          /\ dl_files' = IF dl_files = <<>> THEN dl_files
                         ELSE DeleteFunc(dl_files, key)
          /\ dl_op' = [op |-> "DelFile", keys |-> key]
    /\ dl_prev' = [cookies |-> dl_cookies, files |-> dl_files]
    /\ UNCHANGED <<offDel, dl_cookies, dl_n>>

NextDel ==
    \/ CookieAdd
    \/ FileAdd
    \/ DelCookieKeys
    \/ DelFileKeys

(***************************************************************************)
(* Validation of proxy URLs: verifyProxy, verifyProxies, the selector      *)
(* factories and the client's setters.  An error is named by the sentinel  *)
(* errors.Is finds in it; "url.Error" is the error of url.Parse, which     *)
(* wraps none.                                                             *)
(***************************************************************************)
\* url.Parse on the URLs of the model.
UrlParse(raw) ==
    CASE raw = "http://p1:8080" -> [err |-> "nil", Scheme |-> "http"]
      [] raw = "socks5://p3" -> [err |-> "nil", Scheme |-> "socks5"]
      [] raw = "ftp://bad:21" -> [err |-> "nil", Scheme |-> "ftp"]
      [] OTHER -> [err |-> "url.Error", Scheme |-> ""]

\* verifyProxy(proxyURL): the error, "nil" for none
verifyProxy(raw) ==
    LET parsedURL == UrlParse(raw)
    IN IF parsedURL.err # "nil" THEN parsedURL.err
       ELSE IF parsedURL.Scheme \in {"http", "https", "socks5"} THEN "nil"
       ELSE "UnsupportedScheme"

\* verifyProxies(proxyURLs): the error of the first URL that has one
RECURSIVE FirstError(_)
FirstError(urls) ==
    IF urls = <<>> THEN "nil"
    ELSE IF verifyProxy(Head(urls)) # "nil" THEN verifyProxy(Head(urls))
    ELSE FirstError(Tail(urls))

\* Mutant: only the first URL is verified.
verifyFirstProxy(urls) == IF Len(urls) = 0 THEN "NoProxies" ELSE verifyProxy(urls[1])

verifyProxies(urls) == IF Len(urls) = 0 THEN "NoProxies" ELSE FirstError(urls)

\* What RoundRobinProxies and RandomProxies return.
Factory(kind, urls) ==
    LET err == verifyProxies(urls)
    IN [err |-> err,
        selector |-> IF err = "nil" THEN [kind |-> kind, of |-> urls] ELSE NoSelector]

\* ensureTransport(): the transport after the call, and the error
ensureTransport(t) ==
    CASE t = "nil" -> [transport |-> "http", err |-> "nil"]
      [] t = "http" -> [transport |-> "http", err |-> "nil"]
      [] OTHER -> [transport |-> t, err |-> "InvalidTransportType"]

URLLists == UNION {[1..n -> ProxyURLs] : n \in 0..MaxProxyURLs}

InitValid ==
    /\ IdleBase /\ IdleQuery /\ IdleStream /\ IdleProxy /\ IdleRedirect /\ IdleNoProxy /\ IdleBackoff /\ IdleResponse /\ IdleDel /\ IdleInfer /\ IdleCache /\ IdleMem /\ IdleStrategy /\ IdleSendCtx /\ IdleEnc /\ IdleShare
    /\ pv_transport \in {"nil", "http", "other"}
    /\ pv_proxy = NoSelector
    /\ pv_prev = NoSelector
    /\ pv_last = [fn |-> "none", urls |-> <<>>, err |-> "nil", selector |-> NoSelector]

offValid == <<baseVars, queryVars, streamVars, proxyVars, redirectVars, noProxyVars, backoffVars, responseVars, delVars, inferVars, cacheVars, memVars, strategyVars, sendCtxVars, encVars, shareVars>>

\* RoundRobinProxies(proxyURLs...)
CallRoundRobinProxies ==
    /\ \E urls \in URLLists :
          pv_last' = [fn |-> "RoundRobinProxies", urls |-> urls,
                      err |-> Factory("roundrobin", urls).err,
                      selector |-> Factory("roundrobin", urls).selector]
    /\ pv_prev' = pv_proxy
    /\ UNCHANGED <<offValid, pv_transport, pv_proxy>>

\* RandomProxies(proxyURLs...)
CallRandomProxies ==
    /\ \E urls \in URLLists :
          pv_last' = [fn |-> "RandomProxies", urls |-> urls,
                      err |-> Factory("random", urls).err,
                      selector |-> Factory("random", urls).selector]
    /\ pv_prev' = pv_proxy
    /\ UNCHANGED <<offValid, pv_transport, pv_proxy>>

\* c.SetProxies(proxyURLs...): RoundRobinProxies, then SetProxySelector
SetProxies ==
    /\ \E urls \in URLLists :
          LET f == Factory("roundrobin", urls)
              e == ensureTransport(pv_transport)
          IN IF f.err # "nil"
             THEN /\ pv_last' = [fn |-> "SetProxies", urls |-> urls, err |-> f.err,
                                 selector |-> NoSelector]
                  /\ UNCHANGED <<pv_transport, pv_proxy>>
             ELSE /\ pv_transport' = e.transport
                  /\ pv_proxy' = IF e.err = "nil" THEN f.selector ELSE pv_proxy
                  /\ pv_last' = [fn |-> "SetProxies", urls |-> urls, err |-> e.err,
                                 selector |-> NoSelector]
    /\ pv_prev' = pv_proxy
    /\ UNCHANGED offValid

\* c.SetProxy(proxyURL)
SetProxy ==
    /\ \E raw \in ProxyURLs :
          LET e == ensureTransport(pv_transport)
          IN IF verifyProxy(raw) # "nil"
             THEN /\ pv_last' = [fn |-> "SetProxy", urls |-> <<raw>>, err |-> verifyProxy(raw),
                                 selector |-> NoSelector]
                  /\ UNCHANGED <<pv_transport, pv_proxy>>
             ELSE /\ pv_transport' = e.transport
                  /\ pv_proxy' = IF e.err = "nil" THEN [kind |-> "url", of |-> <<raw>>]
                                 ELSE pv_proxy
                  /\ pv_last' = [fn |-> "SetProxy", urls |-> <<raw>>, err |-> e.err,
                                 selector |-> NoSelector]
    /\ pv_prev' = pv_proxy
    /\ UNCHANGED offValid

\* c.RemoveProxy()
RemoveProxy ==
    /\ pv_proxy' = IF pv_transport = "http" THEN NoSelector ELSE pv_proxy
    /\ pv_prev' = pv_proxy
    /\ pv_last' = [fn |-> "RemoveProxy", urls |-> <<>>, err |-> "nil", selector |-> NoSelector]
    /\ UNCHANGED <<offValid, pv_transport>>

NextValid ==
    \/ CallRoundRobinProxies
    \/ CallRandomProxies
    \/ SetProxies
    \/ SetProxy
    \/ RemoveProxy

(***************************************************************************)
(* The body of a request: prepareBody, the content type inferred from the  *)
(* dynamic type of the body value, and its encoding.  An error is named by *)
(* the sentinel errors.Is finds in it.                                     *)
(***************************************************************************)
\* switch b.bodyData.(type): a case names one type, and matches that type only
inferContentType(t) ==
    CASE t \in {"url.Values", "map[string][]string", "map[string]string"} ->
             "application/x-www-form-urlencoded"
      [] t \in {"map[string]any", "[]any", "struct{}"} -> "application/json"
      [] t \in {"string", "[]byte"} -> "text/plain"
      [] OTHER -> ""

\* encodeRawBody(): the error
encodeRawBody(t) ==
    IF t \in {"string", "[]byte", "io.Reader"} THEN "nil" ELSE "UnsupportedContentType"

\* encodeBody(contentType): the error.  encFails: the encoder rejects the value.
encodeBody(contentType, t, encFails) ==
    CASE contentType \in {"application/json", "application/xml", "application/yaml"} ->
             (IF encFails THEN "encoder" ELSE "nil")
      [] contentType = "application/x-www-form-urlencoded" ->
             (IF t \in {"url.Values", "map[string][]string", "map[string]string"} THEN "nil"
              ELSE IF encFails THEN "EncodingFailed" ELSE "nil")
      [] contentType \in {"text/plain", "application/octet-stream"} -> encodeRawBody(t)
      [] OTHER -> "UnsupportedContentType"

InitInfer ==
    /\ IdleBase /\ IdleQuery /\ IdleStream /\ IdleProxy /\ IdleRedirect /\ IdleNoProxy /\ IdleBackoff /\ IdleResponse /\ IdleDel /\ IdleValid /\ IdleCache /\ IdleMem /\ IdleStrategy /\ IdleSendCtx /\ IdleEnc /\ IdleShare
    /\ IdleInfer

offInfer == <<baseVars, queryVars, streamVars, proxyVars, redirectVars, noProxyVars, backoffVars, responseVars, delVars, validVars, cacheVars, memVars, strategyVars, sendCtxVars, encVars, shareVars>>

\* b.Body(body)
BodyOfType ==
    /\ ic_pc = "build"
    /\ \E t \in BodyTypes : ic_bodyData' = t
    /\ UNCHANGED <<offInfer, ic_header, ic_form, ic_explicit, ic_pc, ic_err, ic_calls>>

\* b.ContentType(contentType)
ContentType ==
    /\ ic_pc = "build"
    /\ \E c \in ContentTypes : ic_header' = c
    /\ UNCHANGED <<offInfer, ic_bodyData, ic_form, ic_explicit, ic_pc, ic_err, ic_calls>>

\* b.FormField(key, val)
FormFieldAdded ==
    /\ ic_pc = "build"
    /\ ic_form' = [ic_form EXCEPT !.fields = TRUE]
    /\ UNCHANGED <<offInfer, ic_bodyData, ic_header, ic_explicit, ic_pc, ic_err, ic_calls>>

\* b.File(key, filename, content)
FormFile ==
    /\ ic_pc = "build"
    /\ ic_form' = [ic_form EXCEPT !.files = TRUE]
    /\ UNCHANGED <<offInfer, ic_bodyData, ic_header, ic_explicit, ic_pc, ic_err, ic_calls>>

\* Send: body, contentType, err := b.prepareBody(); on an error Send returns
\* it; else the content type, when not empty, is set as the header.
SendPrepareBody ==
    /\ ic_pc = "build"
    /\ ic_explicit' = ic_header
    /\ \E encFails \in BOOLEAN :
          LET res ==
                 IF ic_form.files
                 THEN [ct |-> "multipart/form-data", hdr |-> ic_header,
                       err |-> IF encFails THEN "multipart" ELSE "nil"]
                 ELSE IF ic_form.fields
                 THEN [ct |-> "application/x-www-form-urlencoded", hdr |-> ic_header,
                       err |-> "nil"]
                 ELSE IF ic_bodyData # "nil"
                 THEN LET ct == IF ic_header = "" THEN inferContentType(ic_bodyData)
                                ELSE ic_header
                      IN [ct |-> ct, hdr |-> ct,
                          err |-> encodeBody(ct, ic_bodyData, encFails)]
                 ELSE [ct |-> "", hdr |-> ic_header, err |-> "nil"]
          IN /\ ic_err' = res.err
             /\ ic_header' = IF res.err = "nil" /\ res.ct # "" THEN res.ct ELSE res.hdr
             /\ ic_pc' = IF res.err = "nil" THEN "prepared" ELSE "failed"
    /\ UNCHANGED <<offInfer, ic_bodyData, ic_form, ic_calls>>

\* Send, after the body is prepared: the request goes to the transport.
SendTransportCall ==
    /\ ic_pc = "prepared"
    /\ ic_calls' = ic_calls + 1
    /\ ic_pc' = "sent"
    /\ UNCHANGED <<offInfer, ic_bodyData, ic_header, ic_form, ic_explicit, ic_err>>

NextInfer ==
    \/ BodyOfType
    \/ ContentType
    \/ FormFieldAdded
    \/ FormFile
    \/ SendPrepareBody
    \/ SendTransportCall

(***************************************************************************)
(* CacheMiddleware over a MemoryCache.  A cached item is the JSON document *)
(* of a CachedResponse; `of` is the response it was made from, which the   *)
(* code does not keep.  json.Marshal writes a nil map as an empty object,  *)
(* the body as base64, and fails on text that is not valid UTF-8.  Time    *)
(* passing expires an item; the cleaner deletes expired items.             *)
(***************************************************************************)
\* Mutant: the path alone.
CacheKeyOfPath(req) == <<req.path, "">>

\* generateCacheKey(req): the path, and "?" and the raw query when there is one
generateCacheKey(req) == <<req.path, req.rawQuery>>

\* json.Marshal(cacheData)
Marshal(resp) ==
    IF \E h \in resp.Header.m : \E i \in 1..Len(h[2]) : h[2][i] = "BADUTF8"
    THEN [err |-> TRUE, doc |-> <<>>]
    ELSE [err |-> FALSE,
          doc |-> [Status |-> resp.Status, StatusCode |-> resp.StatusCode,
                   Headers |-> resp.Header.m, Body |-> <<"base64", resp.Body>>]]

\* cacheResponse(resp): the body is read to its end, then the document
cacheResponse(resp, readFails) ==
    IF readFails THEN [err |-> TRUE, doc |-> <<>>] ELSE Marshal(resp)

\* Mutant: the headers of the document are left out of the response.
buildResponseWithoutHeaders(doc) ==
    [Status |-> doc.Status, StatusCode |-> doc.StatusCode,
     Header |-> [nil |-> TRUE, m |-> {}], Body |-> doc.Body[2]]

\* buildResponseFromCache(data): json.Unmarshal into a CachedResponse
buildResponseFromCache(doc) ==
    [Status |-> doc.Status, StatusCode |-> doc.StatusCode,
     Header |-> [nil |-> FALSE, m |-> doc.Headers], Body |-> doc.Body[2]]

\* MemoryCache.Get(key): the item, when there is one and it has not expired
CacheGet(key) ==
    IF ch_cache[key].present /\ ~ch_cache[key].expired
    THEN [ok |-> TRUE, data |-> ch_cache[key].data]
    ELSE [ok |-> FALSE, data |-> <<>>]

\* Mutant: every response without an error is cached.
CachesAnyStatus(resp) == TRUE

\* if resp.StatusCode == http.StatusOK
CachesStatus(resp) == resp.StatusCode = 200

InitCache ==
    /\ IdleBase /\ IdleQuery /\ IdleStream /\ IdleProxy /\ IdleRedirect /\ IdleNoProxy /\ IdleBackoff /\ IdleResponse /\ IdleDel /\ IdleValid /\ IdleInfer /\ IdleMem /\ IdleStrategy /\ IdleSendCtx /\ IdleEnc /\ IdleShare
    /\ ch_ttl \in BOOLEAN
    /\ ch_servers = OneOrigin
    /\ ch_cache = EmptyCache
    /\ ch_prev = EmptyCache
    /\ ch_last = NoCacheCall

\* Requests to several origins, which answer alike.
InitCacheKey ==
    /\ IdleBase /\ IdleQuery /\ IdleStream /\ IdleProxy /\ IdleRedirect /\ IdleNoProxy /\ IdleBackoff /\ IdleResponse /\ IdleDel /\ IdleValid /\ IdleInfer /\ IdleMem /\ IdleStrategy /\ IdleSendCtx /\ IdleEnc /\ IdleShare
    /\ ch_ttl \in BOOLEAN
    /\ ch_servers = [origins |-> CacheOrigins, headers |-> {[nil |-> TRUE, m |-> {}]},
                     bodies |-> {<<"a">>}]
    /\ ch_cache = EmptyCache
    /\ ch_prev = EmptyCache
    /\ ch_last = NoCacheCall

offCache == <<baseVars, queryVars, streamVars, proxyVars, redirectVars, noProxyVars, backoffVars, responseVars, delVars, validVars, inferVars, memVars, strategyVars, sendCtxVars, encVars, shareVars>>

\* The handler CacheMiddleware returns, called with a request; next's result
\* is any response or an error.
CacheMiddleware ==
    /\ \E method \in CacheMethods, origin \in ch_servers.origins, rawQuery \in CacheQueries,
          st \in CacheStatuses, hd \in ch_servers.headers, bd \in ch_servers.bodies,
          nextErr \in BOOLEAN, readFails \in BOOLEAN :
          LET req == [scheme |-> origin[1], host |-> origin[2], path |-> "/test",
                      rawQuery |-> rawQuery]
              cacheKey == generateCacheKey(req)
              nextResp == [Status |-> st.Status, StatusCode |-> st.StatusCode,
                           Header |-> hd, Body |-> bd]
              call == [NoCacheCall EXCEPT !.op = "call", !.method = method, !.req = req,
                                          !.key = cacheKey]
          IN IF method # "GET"
             THEN /\ ch_last' = [call EXCEPT !.nextCalled = TRUE, !.nextErr = nextErr,
                                             !.resp = IF nextErr THEN NoResponse ELSE nextResp,
                                             !.err = IF nextErr THEN "next" ELSE "nil"]
                  /\ UNCHANGED ch_cache
             ELSE IF CacheGet(cacheKey).ok
             THEN /\ ch_last' = [call EXCEPT !.read = TRUE,
                                   !.resp = buildResponseFromCache(CacheGet(cacheKey).data)]
                  /\ UNCHANGED ch_cache
             ELSE IF nextErr
             THEN /\ ch_last' = [call EXCEPT !.read = TRUE, !.nextCalled = TRUE,
                                             !.nextErr = TRUE, !.err = "next"]
                  /\ UNCHANGED ch_cache
             ELSE LET c == cacheResponse(nextResp, readFails)
                      writes == CachesStatus(nextResp) /\ ~c.err
                  IN /\ ch_cache' = IF writes
                                    THEN [ch_cache EXCEPT ![cacheKey] =
                                             [present |-> TRUE, data |-> c.doc,
                                              of |-> nextResp, from |-> req,
                                              expired |-> ~ch_ttl]]
                                    ELSE ch_cache
                     /\ ch_last' = [call EXCEPT !.read = TRUE, !.nextCalled = TRUE,
                                                !.wrote = writes, !.resp = nextResp]
    /\ ch_prev' = ch_cache
    /\ UNCHANGED <<offCache, ch_ttl, ch_servers>>

\* Time passes an item's expiration.
ItemExpires ==
    /\ \E k \in CacheKeys :
          /\ ch_cache[k].present /\ ~ch_cache[k].expired
          /\ ch_cache' = [ch_cache EXCEPT ![k].expired = TRUE]
    /\ ch_prev' = ch_cache
    /\ ch_last' = [NoCacheCall EXCEPT !.op = "time"]
    /\ UNCHANGED <<offCache, ch_ttl, ch_servers>>

\* cleanExpired(), at a tick: the expired items are deleted
CleanExpired ==
    /\ \E k \in CacheKeys : ch_cache[k].present /\ ch_cache[k].expired
    /\ ch_cache' = [k \in CacheKeys |-> IF ch_cache[k].expired THEN NoItem ELSE ch_cache[k]]
    /\ ch_prev' = ch_cache
    /\ ch_last' = [NoCacheCall EXCEPT !.op = "clean"]
    /\ UNCHANGED <<offCache, ch_ttl, ch_servers>>

NextCache ==
    \/ CacheMiddleware
    \/ ItemExpires
    \/ CleanExpired

(***************************************************************************)
(* MemoryCache: Get under the read lock, Set and Delete under the write    *)
(* lock, the cleanup worker NewMemoryCache starts, and Close.  A user      *)
(* holds the lock from one step to the next; a pending Lock of the worker  *)
(* keeps new readers out, as sync.RWMutex does.  close() of a closed       *)
(* channel panics, and an unrecovered panic ends the process and every     *)
(* goroutine in it.                                                        *)
(***************************************************************************)
\* Mutant: an item is returned at its expiration too.
NotAfter(now, expiration) == now <= expiration

\* time.Now().Before(item.expiration)
Before(now, expiration) == now < expiration

\* now.After(item.expiration)
After(now, expiration) == now > expiration

\* Mutant: the lock is granted while readers hold it.
GrantedBesideReaders(l) == l.w = "none"

\* c.mutex.Lock() is granted
LockGranted(l) == l.w = "none" /\ l.r = {}

\* c.mutex.RLock() is granted: no writer holds the lock or waits for it
RLockGranted(l) == l.w = "none" /\ mc_worker # "want"

\* The lock under which goroutine g changes c.data.
Touch(g) == [by |-> g, exclusive |-> mc_lock.w = g /\ mc_lock.r = {}]

InitMem ==
    /\ IdleBase /\ IdleQuery /\ IdleStream /\ IdleProxy /\ IdleRedirect /\ IdleNoProxy /\ IdleBackoff /\ IdleResponse /\ IdleDel /\ IdleValid /\ IdleInfer /\ IdleCache /\ IdleStrategy /\ IdleSendCtx /\ IdleEnc /\ IdleShare
    /\ IdleMem

offMem == <<baseVars, queryVars, streamVars, proxyVars, redirectVars, noProxyVars, backoffVars, responseVars, delVars, validVars, inferVars, cacheVars, strategyVars, sendCtxVars, encVars, shareVars>>

\* NewMemoryCache(): go cache.cleanExpired()
NewMemoryCache ==
    /\ mc_worker = "none"
    /\ mc_workers' = mc_workers + 1
    /\ mc_worker' = "select"
    /\ UNCHANGED <<offMem, mc_data, mc_set, mc_now, mc_lock, mc_pc, mc_tick, mc_done,
                   mc_crashed, mc_got, mc_touch>>

\* Get: c.mutex.RLock()
GetRLock ==
    /\ mc_worker # "none" /\ ~mc_crashed
    /\ \E g \in CacheUsers :
          /\ mc_pc[g] = "idle"
          /\ RLockGranted(mc_lock)
          /\ mc_lock' = [mc_lock EXCEPT !.r = @ \cup {g}]
          /\ mc_pc' = [mc_pc EXCEPT ![g] = "r"]
    /\ UNCHANGED <<offMem, mc_workers, mc_data, mc_set, mc_now, mc_worker, mc_tick, mc_done,
                   mc_crashed, mc_got, mc_touch>>

\* Get(key): the lookup, the expiration check and the deferred RUnlock
GetBody ==
    /\ ~mc_crashed
    /\ \E g \in CacheUsers, k \in MemKeys :
          /\ mc_pc[g] = "r"
          /\ LET item == mc_data[k]
                 ok == item.present /\ Before(mc_now, item.expiration)
             IN mc_got' = [ok |-> ok, value |-> IF ok THEN item.value ELSE "",
                           set |-> mc_set[k].present, setValue |-> mc_set[k].value,
                           elapsed |-> mc_set[k].present /\ mc_now >= mc_set[k].expiration,
                           kept |-> item.present]
          /\ mc_lock' = [mc_lock EXCEPT !.r = @ \ {g}]
          /\ mc_pc' = [mc_pc EXCEPT ![g] = "idle"]
    /\ UNCHANGED <<offMem, mc_workers, mc_data, mc_set, mc_now, mc_worker, mc_tick, mc_done,
                   mc_crashed, mc_touch>>

\* Set, Delete: c.mutex.Lock()
UserLock ==
    /\ mc_worker # "none" /\ ~mc_crashed
    /\ \E g \in CacheUsers :
          /\ mc_pc[g] = "idle"
          /\ LockGranted(mc_lock)
          /\ mc_lock' = [mc_lock EXCEPT !.w = g]
          /\ mc_pc' = [mc_pc EXCEPT ![g] = "w"]
    /\ UNCHANGED <<offMem, mc_workers, mc_data, mc_set, mc_now, mc_worker, mc_tick, mc_done,
                   mc_crashed, mc_got, mc_touch>>

\* Set(key, value, ttl): the item, and the deferred Unlock
SetBody ==
    /\ ~mc_crashed
    /\ \E g \in CacheUsers, k \in MemKeys, v \in MemValues, ttl \in 0..MaxTTL :
          /\ mc_pc[g] = "w"
          /\ mc_data' = [mc_data EXCEPT ![k] =
                            [present |-> TRUE, value |-> v, expiration |-> mc_now + ttl]]
          /\ mc_set' = [mc_set EXCEPT ![k] =
                            [present |-> TRUE, value |-> v, expiration |-> mc_now + ttl]]
          /\ mc_touch' = Touch(g)
          /\ mc_lock' = [mc_lock EXCEPT !.w = "none"]
          /\ mc_pc' = [mc_pc EXCEPT ![g] = "idle"]
    /\ UNCHANGED <<offMem, mc_workers, mc_now, mc_worker, mc_tick, mc_done, mc_crashed, mc_got>>

\* Delete(key): delete(c.data, key), and the deferred Unlock
DeleteBody ==
    /\ ~mc_crashed
    /\ \E g \in CacheUsers, k \in MemKeys :
          /\ mc_pc[g] = "w"
          /\ mc_data' = [mc_data EXCEPT ![k] = NoMemItem]
          /\ mc_set' = [mc_set EXCEPT ![k] = NoMemItem]
          /\ mc_touch' = Touch(g)
          /\ mc_lock' = [mc_lock EXCEPT !.w = "none"]
          /\ mc_pc' = [mc_pc EXCEPT ![g] = "idle"]
    /\ UNCHANGED <<offMem, mc_workers, mc_now, mc_worker, mc_tick, mc_done, mc_crashed, mc_got>>

\* Close(): close(c.done)
MemClose ==
    /\ mc_worker # "none" /\ ~mc_crashed
    /\ \E g \in CacheUsers : mc_pc[g] = "idle"
    /\ IF mc_done = "open"
       THEN mc_done' = "closed" /\ UNCHANGED mc_crashed
       ELSE mc_crashed' = TRUE /\ UNCHANGED mc_done
    /\ UNCHANGED <<offMem, mc_workers, mc_data, mc_set, mc_now, mc_lock, mc_pc, mc_worker,
                   mc_tick, mc_got, mc_touch>>

\* Time passes.
ClockTick ==
    /\ ~mc_crashed
    /\ mc_now < MaxClock
    /\ mc_now' = mc_now + 1
    /\ UNCHANGED <<offMem, mc_workers, mc_data, mc_set, mc_lock, mc_pc, mc_worker, mc_tick,
                   mc_done, mc_crashed, mc_got, mc_touch>>

\* The ticker sends on ticker.C.
TickerFires ==
    /\ ~mc_crashed
    /\ mc_worker \notin {"none", "exited"}
    /\ ~mc_tick
    /\ mc_tick' = TRUE
    /\ UNCHANGED <<offMem, mc_workers, mc_data, mc_set, mc_now, mc_lock, mc_pc, mc_worker,
                   mc_done, mc_crashed, mc_got, mc_touch>>

\* select: case <-ticker.C
WorkerSelectTick ==
    /\ ~mc_crashed
    /\ mc_worker = "select"
    /\ mc_tick
    /\ mc_tick' = FALSE
    /\ mc_worker' = "want"
    /\ UNCHANGED <<offMem, mc_workers, mc_data, mc_set, mc_now, mc_lock, mc_pc, mc_done,
                   mc_crashed, mc_got, mc_touch>>

\* c.mutex.Lock()
WorkerLock ==
    /\ ~mc_crashed
    /\ mc_worker = "want"
    /\ LockGranted(mc_lock)
    /\ mc_lock' = [mc_lock EXCEPT !.w = "worker"]
    /\ mc_worker' = "locked"
    /\ UNCHANGED <<offMem, mc_workers, mc_data, mc_set, mc_now, mc_pc, mc_tick, mc_done,
                   mc_crashed, mc_got, mc_touch>>

\* The scan: every item past its expiration is deleted; c.mutex.Unlock()
WorkerScan ==
    /\ ~mc_crashed
    /\ mc_worker = "locked"
    /\ mc_data' = [k \in MemKeys |->
                      IF mc_data[k].present /\ After(mc_now, mc_data[k].expiration)
                      THEN NoMemItem ELSE mc_data[k]]
    /\ mc_touch' = Touch("worker")
    /\ mc_lock' = [mc_lock EXCEPT !.w = IF @ = "worker" THEN "none" ELSE @]
    /\ mc_worker' = "select"
    /\ UNCHANGED <<offMem, mc_workers, mc_set, mc_now, mc_pc, mc_tick, mc_done, mc_crashed,
                   mc_got>>

\* select: case <-c.done: return (the deferred ticker.Stop())
WorkerSelectDone ==
    /\ ~mc_crashed
    /\ mc_worker = "select"
    /\ mc_done = "closed"
    /\ mc_worker' = "exited"
    /\ UNCHANGED <<offMem, mc_workers, mc_data, mc_set, mc_now, mc_lock, mc_pc, mc_tick,
                   mc_done, mc_crashed, mc_got, mc_touch>>

NextMem ==
    \/ NewMemoryCache
    \/ GetRLock
    \/ GetBody
    \/ UserLock
    \/ SetBody
    \/ DeleteBody
    \/ MemClose
    \/ ClockTick
    \/ TickerFires
    \/ WorkerSelectTick
    \/ WorkerLock
    \/ WorkerScan
    \/ WorkerSelectDone

(***************************************************************************)
(* The backoff strategies.  Durations are whole nanoseconds; a float64 is  *)
(* the quotient p/q of two integers, and its conversion to a Duration      *)
(* drops the fraction.  Every product of the inputs below is far inside    *)
(* the 64 bits of a Duration.                                              *)
(***************************************************************************)
minBackoffDelay == 0

RECURSIVE IPow(_, _)
IPow(x, n) == IF n = 0 THEN 1 ELSE x * IPow(x, n - 1)

\* time.Duration(f) of the float64 p/q, q > 0.
Trunc(p, q) == IF p >= 0 THEN p \div q ELSE -((-p) \div q)

\* math.Pow(multiplier, float64(attempt)).
Pow(multiplier, att) == <<IPow(multiplier[1], att), IPow(multiplier[2], att)>>

\* ExponentialBackoffStrategy(initialInterval, multiplier, maxBackoffTime)(att):
\* the power is converted to a Duration, and then multiplied.
ExponentialBackoffStrategy(initialInterval, multiplier, maxBackoffTime, att) ==
    LET pow == Pow(multiplier, att)
        delay == initialInterval * Trunc(pow[1], pow[2])
    IN Min(delay, maxBackoffTime)

\* JitterBackoffStrategy(base, fraction)(attempt), base(attempt) = delay, with
\* rand.Float64() = draw/JitterDraws.
JitterWithoutFloor(delay, fraction, draw) ==
    IF fraction[1] <= 0
    THEN delay
    ELSE LET q == fraction[2] * JitterDraws
             p == delay * q + delay * fraction[1] * (2 * draw - JitterDraws)
         IN Trunc(p, q)

JitterBackoffStrategy(delay, fraction, draw) ==
    IF fraction[1] <= 0
    THEN delay
    ELSE LET q == fraction[2] * JitterDraws
             p == delay * q + delay * fraction[1] * (2 * draw - JitterDraws)
             result == Trunc(p, q)
         IN IF result > minBackoffDelay THEN result ELSE minBackoffDelay

InitStrategy ==
    /\ IdleBase /\ IdleQuery /\ IdleStream /\ IdleProxy /\ IdleRedirect /\ IdleNoProxy /\ IdleBackoff /\ IdleResponse /\ IdleDel /\ IdleValid /\ IdleInfer /\ IdleCache /\ IdleMem /\ IdleSendCtx /\ IdleEnc /\ IdleShare
    /\ bs_cfg \in [initialInterval : Intervals, multiplier : Multipliers,
                   maxBackoffTime : Caps, fraction : Fractions]
    /\ bs_attempt = -1
    /\ bs_delay = 0
    /\ bs_prev = 0
    /\ bs_out = NoJitter

offStrategy == <<baseVars, queryVars, streamVars, proxyVars, redirectVars, noProxyVars, backoffVars, responseVars, delVars, validVars, inferVars, cacheVars, memVars, sendCtxVars, encVars, shareVars>>

\* The retry engine asks the exponential strategy for the next attempt's delay.
CallExponential ==
    /\ bs_attempt < MaxAttempt
    /\ bs_attempt' = bs_attempt + 1
    /\ bs_delay' = ExponentialBackoffStrategy(bs_cfg.initialInterval, bs_cfg.multiplier,
                                              bs_cfg.maxBackoffTime, bs_attempt + 1)
    /\ bs_prev' = bs_delay
    /\ UNCHANGED <<offStrategy, bs_cfg, bs_out>>

\* The jittered strategy over the exponential one, called for the same attempt.
CallJitter ==
    /\ bs_attempt >= 0
    /\ \E draw \in 0..(JitterDraws - 1) :
          bs_out' = [called |-> TRUE, base |-> bs_delay, draw |-> draw,
                     result |-> JitterBackoffStrategy(bs_delay, bs_cfg.fraction, draw)]
    /\ UNCHANGED <<offStrategy, bs_cfg, bs_attempt, bs_delay, bs_prev>>

NextStrategy ==
    \/ CallExponential
    \/ CallJitter

(***************************************************************************)
(* Send with a timeout and a chunk callback.  The request carries the      *)
(* context prepareContext returns; the transport ends the response body's  *)
(* reads with the context's error once that context is done.  A chunk that *)
(* had arrived before may still be read; one written later is not.         *)
(***************************************************************************)
\* prepareContext: a child context with the timeout and its cancel function
\* when the caller's context has no deadline and the timeout is positive.
prepareContext(in) == ~in.deadline /\ in.timeout > 0

ErrOfContext(c) == IF c = "canceled" THEN "context canceled" ELSE "context deadline exceeded"

InitSendCtx ==
    /\ IdleBase /\ IdleQuery /\ IdleStream /\ IdleProxy /\ IdleRedirect /\ IdleNoProxy /\ IdleBackoff /\ IdleResponse /\ IdleDel /\ IdleValid /\ IdleInfer /\ IdleCache /\ IdleMem /\ IdleStrategy /\ IdleEnc /\ IdleShare
    /\ sx_in \in [timeout : {0, 1}, deadline : BOOLEAN, stream : BOOLEAN]
    /\ sx_pc = "start"
    /\ sx_cancel = FALSE
    /\ sx_ctx = "live"
    /\ sx_sent = [n |-> 0, ended |-> FALSE]
    /\ sx_atEnd = -1
    /\ sx_got = 0
    /\ sx_worker = "none"
    /\ sx_err = "nil"

offSendCtx == <<baseVars, queryVars, streamVars, proxyVars, redirectVars, noProxyVars, backoffVars, responseVars, delVars, validVars, inferVars, cacheVars, memVars, strategyVars, encVars, shareVars>>

\* Send up to the request made with the prepared context.
SendPrepareContext ==
    /\ sx_pc = "start"
    /\ sx_cancel' = prepareContext(sx_in)
    /\ sx_pc' = "prepared"
    /\ UNCHANGED <<offSendCtx, sx_in, sx_ctx, sx_sent, sx_atEnd, sx_got, sx_worker, sx_err>>

\* b.do returns the response's head, or the context's error; NewResponse
\* starts handleStream when a chunk callback is set, and reads the body itself
\* otherwise.
SendDoNewResponse ==
    /\ sx_pc = "prepared"
    /\ IF sx_ctx # "live"
       THEN /\ sx_pc' = "deferred"
            /\ sx_err' = ErrOfContext(sx_ctx)
            /\ UNCHANGED sx_worker
       ELSE /\ sx_pc' = IF sx_in.stream THEN "deferred" ELSE "nonstream"
            /\ sx_worker' = IF sx_in.stream THEN "reading" ELSE "none"
            /\ UNCHANGED sx_err
    /\ UNCHANGED <<offSendCtx, sx_in, sx_cancel, sx_ctx, sx_sent, sx_atEnd, sx_got>>

\* A read of the response body by g: a chunk, the end of the body, or the
\* error of the context; no read while nothing has arrived.
BodyReadable ==
    \/ sx_got < sx_sent.n
    \/ sx_sent.ended
    \/ sx_ctx # "live"

BodyRead(onEnd, onErr) ==
    /\ BodyReadable
    /\ \/ /\ sx_got < (IF sx_ctx = "live" THEN sx_sent.n ELSE sx_atEnd)
          /\ sx_got' = sx_got + 1
          /\ UNCHANGED <<sx_err, sx_worker, sx_pc>>
       \/ /\ sx_ctx = "live"
          /\ sx_got = sx_sent.n
          /\ sx_sent.ended
          /\ onEnd
          /\ UNCHANGED <<sx_got, sx_err>>
       \/ /\ sx_ctx # "live"
          /\ sx_err' = ErrOfContext(sx_ctx)
          /\ onErr
          /\ UNCHANGED sx_got

\* handleNonStream: buf.ReadFrom(body), inside Send.
HandleNonStreamRead ==
    /\ sx_pc = "nonstream"
    /\ BodyRead(sx_pc' = "deferred" /\ UNCHANGED sx_worker,
                sx_pc' = "deferred" /\ UNCHANGED sx_worker)
    /\ UNCHANGED <<offSendCtx, sx_in, sx_cancel, sx_ctx, sx_sent, sx_atEnd>>

\* handleStream: scanner.Scan() and the chunk callback, in its own goroutine.
HandleStreamRead ==
    /\ sx_worker = "reading"
    /\ BodyRead(sx_worker' = "done" /\ UNCHANGED sx_pc,
                sx_worker' = "failed" /\ UNCHANGED sx_pc)
    /\ UNCHANGED <<offSendCtx, sx_in, sx_cancel, sx_ctx, sx_sent, sx_atEnd>>

\* Send returns: the deferred cancel() runs when prepareContext gave one.
CancelOnReturn(cancel, ctx) == IF cancel /\ ctx = "live" THEN "canceled" ELSE ctx

SendReturns ==
    /\ sx_pc = "deferred"
    /\ sx_pc' = "returned"
    /\ sx_ctx' = CancelOnReturn(sx_cancel, sx_ctx)
    /\ sx_atEnd' = IF sx_ctx = "live" /\ sx_ctx' # "live" THEN sx_sent.n ELSE sx_atEnd
    /\ UNCHANGED <<offSendCtx, sx_in, sx_cancel, sx_sent, sx_got, sx_worker, sx_err>>

\* The timeout of the derived context, or the caller's deadline, elapses.
DeadlineElapses ==
    /\ sx_pc # "start"
    /\ sx_cancel \/ sx_in.deadline
    /\ sx_ctx = "live"
    /\ sx_ctx' = "deadline"
    /\ sx_atEnd' = sx_sent.n
    /\ UNCHANGED <<offSendCtx, sx_in, sx_pc, sx_cancel, sx_sent, sx_got, sx_worker, sx_err>>

\* The server writes a chunk of the body, or ends it.
ServerWrites ==
    /\ sx_pc \notin {"start", "prepared"}
    /\ ~sx_sent.ended
    /\ \/ /\ sx_sent.n < MaxChunks
          /\ sx_sent' = [sx_sent EXCEPT !.n = @ + 1]
       \/ sx_sent' = [sx_sent EXCEPT !.ended = TRUE]
    /\ UNCHANGED <<offSendCtx, sx_in, sx_pc, sx_cancel, sx_ctx, sx_atEnd, sx_got, sx_worker, sx_err>>

NextSendCtx ==
    \/ SendPrepareContext
    \/ SendDoNewResponse
    \/ HandleNonStreamRead
    \/ HandleStreamRead
    \/ SendReturns
    \/ DeadlineElapses
    \/ ServerWrites

(***************************************************************************)
(* A request body made by a codec encoder.  Encode writes the document to  *)
(* a pooled buffer and returns a poolReader over its bytes; the reader has *)
(* a Close method, so it becomes the request's Body as it is.  Every       *)
(* transport call reads the body as far as it gets and closes it; the      *)
(* retry engine calls the transport again with the same request.           *)
(***************************************************************************)
InitEnc ==
    /\ IdleBase /\ IdleQuery /\ IdleStream /\ IdleProxy /\ IdleRedirect /\ IdleNoProxy /\ IdleBackoff /\ IdleResponse /\ IdleDel /\ IdleValid /\ IdleInfer /\ IdleCache /\ IdleMem /\ IdleStrategy /\ IdleSendCtx /\ IdleShare
    /\ ep_max \in 0..MaxRetriesBound
    /\ ep_pc = "encode"
    /\ ep_attempt = 0
    /\ ep_pos = 0
    /\ ep_free = 0
    /\ ep_puts = 0
    /\ ep_holders = {}
    /\ ep_B = "none"
    /\ ep_stale = FALSE

offEnc == <<baseVars, queryVars, streamVars, proxyVars, redirectVars, noProxyVars, backoffVars, responseVars, delVars, validVars, inferVars, cacheVars, memVars, strategyVars, sendCtxVars, shareVars>>

\* JSONEncoder.Encode: buf := GetBuffer(); buf.Write(data); the reader over
\* buf.B.  Send makes the request with it and the first transport call starts.
EncoderEncode ==
    /\ ep_pc = "encode"
    /\ ep_pc' = "attempt"
    /\ ep_B' = "request"
    /\ UNCHANGED <<offEnc, ep_max, ep_attempt, ep_pos, ep_free, ep_puts, ep_holders, ep_stale>>

\* The transport reads the next byte of req.Body.
TransportReadsBody ==
    /\ ep_pc = "attempt"
    /\ ep_pos < BodyLen
    /\ ep_pos' = ep_pos + 1
    /\ ep_stale' = (ep_stale \/ ep_puts > 0)
    /\ UNCHANGED <<offEnc, ep_max, ep_pc, ep_attempt, ep_free, ep_puts, ep_holders, ep_B>>

\* poolReader.Close: PutBuffer(r.poolBuf), whatever was closed before.
poolReaderClose(puts, free) == free + 1

\* The transport call ends, at the end of the body or before it, and closes
\* req.Body; the retry engine calls the transport again or returns.
TransportClosesBody ==
    /\ ep_pc = "attempt"
    /\ ep_free' = poolReaderClose(ep_puts, ep_free)
    /\ ep_puts' = ep_puts + (ep_free' - ep_free)
    /\ \E again \in BOOLEAN :
          IF again /\ ep_attempt < ep_max
          THEN ep_attempt' = ep_attempt + 1 /\ UNCHANGED ep_pc
          ELSE ep_pc' = "done" /\ UNCHANGED ep_attempt
    /\ UNCHANGED <<offEnc, ep_max, ep_pos, ep_holders, ep_B, ep_stale>>

\* Another goroutine: GetBuffer() hands it the buffer from the pool.
PoolGet(g) ==
    /\ ep_free > 0
    /\ g \notin ep_holders
    /\ ep_free' = ep_free - 1
    /\ ep_holders' = ep_holders \cup {g}
    /\ UNCHANGED <<offEnc, ep_max, ep_pc, ep_attempt, ep_pos, ep_puts, ep_B, ep_stale>>

\* It writes its own bytes to the buffer.
PoolWrite(g) ==
    /\ g \in ep_holders
    /\ ep_B' = g
    /\ UNCHANGED <<offEnc, ep_max, ep_pc, ep_attempt, ep_pos, ep_free, ep_puts, ep_holders, ep_stale>>

\* It puts the buffer back.
PoolPut(g) ==
    /\ g \in ep_holders
    /\ ep_holders' = ep_holders \ {g}
    /\ ep_free' = ep_free + 1
    /\ UNCHANGED <<offEnc, ep_max, ep_pc, ep_attempt, ep_pos, ep_puts, ep_B, ep_stale>>

NextEnc ==
    \/ EncoderEncode
    \/ TransportReadsBody
    \/ TransportClosesBody
    \/ \E g \in PoolUsers : PoolGet(g)
    \/ \E g \in PoolUsers : PoolWrite(g)
    \/ \E g \in PoolUsers : PoolPut(g)

(***************************************************************************)
(* Clients created from one Config.  Config.Headers is a pointer to a      *)
(* header object and Config.Middlewares a slice; Create copies the pointer *)
(* and the slice header into the client.  append writes the next slot of   *)
(* the slice's array when the array has room, and otherwise moves the      *)
(* elements to a new array of twice the capacity.                          *)
(***************************************************************************)
\* What a holder of Headers h and Middlewares s sees: the header values, and
\* the elements of the slice.
Seen(h, s) ==
    [headers |-> IF h = "nil" THEN <<>> ELSE cs_objs[h],
     chain |-> IF s.arr = "nil" THEN <<>> ELSE SubSeq(cs_arrays[s.arr], 1, s.len)]

SeenByAll ==
    [x \in ConfigClients \cup {"config"} |->
        IF x = "config"
        THEN Seen(cs_cfg.Headers, cs_cfg.Middlewares)
        ELSE Seen(cs_clients[x].Headers, cs_clients[x].Middlewares)]

\* Who holds header object h besides client c.
SharedWith(c, h) ==
    {d \in ConfigClients \ {c} : cs_clients[d].created /\ cs_clients[d].Headers = h}

InitShare ==
    /\ IdleBase /\ IdleQuery /\ IdleStream /\ IdleProxy /\ IdleRedirect /\ IdleNoProxy /\ IdleBackoff /\ IdleResponse /\ IdleDel /\ IdleValid /\ IdleInfer /\ IdleCache /\ IdleMem /\ IdleStrategy /\ IdleSendCtx /\ IdleEnc
    /\ \E h \in ConfigHeaders, cap \in ConfigCaps, v \in {<<>>, <<"v0">>} :
          /\ cs_cfg = [Headers |-> h,
                       Middlewares |-> IF cap = 0 THEN NoSlice ELSE [arr |-> "a0", len |-> 1]]
          /\ cs_objs = [o \in {"h0", "A", "B"} |-> IF o = "h0" /\ h = "h0" THEN v ELSE <<>>]
          /\ cs_arrays = [a \in {"a0", "A", "B"} |->
                            IF a = "a0" /\ cap > 0
                            THEN <<"m0">> \o [i \in 1..(cap - 1) |-> "free"]
                            ELSE <<>>]
    /\ cs_clients = [c \in ConfigClients |-> NoClient]
    /\ cs_ops = 0
    /\ cs_last = NoSetter
    /\ cs_raced = FALSE

offShare == <<baseVars, queryVars, streamVars, proxyVars, redirectVars, noProxyVars, backoffVars, responseVars, delVars, validVars, inferVars, cacheVars, memVars, strategyVars, sendCtxVars, encVars>>

\* Create(config): Headers: config.Headers; client.Middlewares =
\* config.Middlewares when that is not nil.
CreateHeaders(c, h) == h

CreateClient(c) ==
    /\ ~cs_clients[c].created
    /\ cs_clients' = [cs_clients EXCEPT ![c] =
                         [created |-> TRUE,
                          Headers |-> CreateHeaders(c, cs_cfg.Headers),
                          Middlewares |-> cs_cfg.Middlewares]]
    /\ UNCHANGED <<offShare, cs_objs, cs_arrays, cs_cfg, cs_ops, cs_last, cs_raced>>

\* A setter call on client c starts: what everyone sees is noted.
SetterCalled(c) ==
    /\ cs_clients[c].created
    /\ cs_ops < MaxClientOps
    /\ cs_ops' = cs_ops + 1
    /\ cs_last' = [by |-> c, before |-> SeenByAll]

\* c.Headers of a setter that needs the object: a new object when it is nil.
HeadersOf(c) == IF cs_clients[c].Headers = "nil" THEN c ELSE cs_clients[c].Headers

\* Client.SetDefaultHeader(key, v)
SetDefaultHeaderOn(c) ==
    /\ SetterCalled(c)
    /\ \E v \in SetterValues :
          cs_objs' = [cs_objs EXCEPT ![HeadersOf(c)] = <<v>>]
    /\ cs_clients' = [cs_clients EXCEPT ![c].Headers = HeadersOf(c)]
    /\ cs_raced' = (cs_raced \/ SharedWith(c, HeadersOf(c)) # {})
    /\ UNCHANGED <<offShare, cs_arrays, cs_cfg>>

\* Client.AddDefaultHeader(key, v)
AddDefaultHeaderOn(c) ==
    /\ SetterCalled(c)
    /\ Len(cs_objs[HeadersOf(c)]) < 2
    /\ \E v \in SetterValues :
          cs_objs' = [cs_objs EXCEPT ![HeadersOf(c)] = Append(@, v)]
    /\ cs_clients' = [cs_clients EXCEPT ![c].Headers = HeadersOf(c)]
    /\ cs_raced' = (cs_raced \/ SharedWith(c, HeadersOf(c)) # {})
    /\ UNCHANGED <<offShare, cs_arrays, cs_cfg>>

\* Client.DelDefaultHeader(key)
DelDefaultHeaderOn(c) ==
    /\ SetterCalled(c)
    /\ IF cs_clients[c].Headers = "nil"
       THEN UNCHANGED <<cs_objs, cs_raced>>
       ELSE /\ cs_objs' = [cs_objs EXCEPT ![cs_clients[c].Headers] = <<>>]
            /\ cs_raced' = (cs_raced \/ SharedWith(c, cs_clients[c].Headers) # {})
    /\ UNCHANGED <<offShare, cs_arrays, cs_cfg, cs_clients>>

\* Client.AddMiddleware(m): c.Middlewares = append(c.Middlewares, m)
AddMiddlewareOn(c) ==
    /\ SetterCalled(c)
    /\ \E m \in SetterMiddlewares :
          LET s == cs_clients[c].Middlewares
              cap == IF s.arr = "nil" THEN 0 ELSE Len(cs_arrays[s.arr])
              old == IF s.arr = "nil" THEN <<>> ELSE SubSeq(cs_arrays[s.arr], 1, s.len)
              newCap == IF 2 * cap > s.len + 1 THEN 2 * cap ELSE s.len + 1
          IN IF s.len < cap
             THEN /\ cs_arrays' = [cs_arrays EXCEPT ![s.arr][s.len + 1] = m]
                  /\ cs_clients' = [cs_clients EXCEPT ![c].Middlewares.len = s.len + 1]
             ELSE /\ cs_arrays' = [cs_arrays EXCEPT ![c] =
                                      old \o <<m>> \o [i \in 1..(newCap - s.len - 1) |-> "free"]]
                  /\ cs_clients' = [cs_clients EXCEPT ![c].Middlewares =
                                       [arr |-> c, len |-> s.len + 1]]
    /\ UNCHANGED <<offShare, cs_objs, cs_cfg, cs_raced>>

NextShare ==
    \/ \E c \in ConfigClients : CreateClient(c)
    \/ \E c \in ConfigClients : SetDefaultHeaderOn(c)
    \/ \E c \in ConfigClients : AddDefaultHeaderOn(c)
    \/ \E c \in ConfigClients : DelDefaultHeaderOn(c)
    \/ \E c \in ConfigClients : AddMiddlewareOn(c)

(***************************************************************************)
(* Specifications.                                                         *)
(***************************************************************************)
Init == InitSend
Next == NextSend
Spec == Init /\ [][Next]_vars

SpecChain == InitChain /\ [][Next]_vars

SpecRetryProxy == InitRetryProxy /\ [][Next]_vars

SpecOwnResult == InitOwnResult /\ [][NextOwnResult]_vars

SpecHeaders == InitHeaders /\ [][NextHeaders]_vars

SpecLock == InitLock /\ [][NextLock]_vars

SpecPool == InitPool /\ [][NextPool]_vars

SpecClone == InitClone /\ [][NextClone]_vars

SpecQuery == InitQuery /\ [][NextQuery]_vars
SpecStream == InitStream /\ [][NextStream]_vars
SpecProxy == InitProxy /\ [][NextProxy]_vars
SpecRedirect == InitRedirect /\ [][NextRedirect]_vars
SpecNoProxy == InitNoProxy /\ [][NextNoProxy]_vars
SpecResponse == InitResponse /\ [][NextResponse]_vars
SpecDel == InitDel /\ [][NextDel]_vars
SpecValid == InitValid /\ [][NextValid]_vars
SpecInfer == InitInfer /\ [][NextInfer]_vars
SpecCache == InitCache /\ [][NextCache]_vars
SpecCacheKey == InitCacheKey /\ [][NextCache]_vars
SpecMem == InitMem /\ [][NextMem]_vars

\* The scheduler runs a goroutine that can take a step; a mutex is handed to
\* a goroutine that keeps waiting for it; select takes each ready case in the
\* end.
SpecMemFair ==
    /\ SpecMem
    /\ WF_vars(GetBody) /\ WF_vars(SetBody) /\ WF_vars(DeleteBody)
    /\ WF_vars(WorkerScan)
    /\ SF_vars(WorkerLock)
    /\ SF_vars(WorkerSelectDone)
SpecStrategy == InitStrategy /\ [][NextStrategy]_vars
SpecSendCtx == InitSendCtx /\ [][NextSendCtx]_vars
SpecEnc == InitEnc /\ [][NextEnc]_vars
SpecShare == InitShare /\ [][NextShare]_vars

(***************************************************************************)
(* Properties of one Send.                                                 *)
(***************************************************************************)
\* The retry engine, and the chain around it, have returned.
EngineReturned == pc \in {"chain_out", "drain", "done"}

\* The attempts, from the first on, for which the retry condition held.
RECURSIVE RetriedAttempts(_)
RetriedAttempts(h) ==
    IF h = <<>> \/ ~shouldRetry(Head(h)) THEN 0
    ELSE 1 + RetriedAttempts(Tail(h))

\* The errors the transport returned, annotated with their attempt, in order.
RECURSIVE RecordedErrors(_, _)
RecordedErrors(h, k) ==
    IF k > Len(h) THEN <<>>
    ELSE (IF h[k].err = "" THEN <<>>
          ELSE <<[attempt |-> k, of |-> maxRetries + 1, e |-> h[k].err]>>)
         \o RecordedErrors(h, k + 1)

\* C1: when a buffered Send has returned, every response the transport
\* returned during the call has had its body closed, also when draining the
\* final body failed.
C1_AllBodiesClosed ==
    pc = "done" => \A k \in 1..Len(hist) : hist[k].resp # 0 => hist[k].closed

\* C21: every return of Send yields exactly one of a response and an error;
\* a chain result with both an error and a response has the response's body
\* closed and only the error returned; a chain result with neither yields
\* ErrResponseNil.
C21_ResponseXorError ==
    pc = "done" =>
        /\ (out.resp # 0) # (out.err.kind # "nil")
        /\ (ret.err.kind # "nil" /\ ret.resp # 0) =>
               (hist[ret.resp].closed /\ out = [resp |-> 0, err |-> ret.err])
        /\ (ret.err.kind = "nil" /\ ret.resp = 0) =>
               out = [resp |-> 0, err |-> ResponseNilErr]

\* Send has returned ErrResponseNil for a chain result with neither a
\* response nor an error.
C21_Witness ==
    /\ pc = "done"
    /\ ret = [resp |-> 0, err |-> NilErr]
    /\ out.err = ResponseNilErr

\* The last transport call returned a response and no error, and draining
\* its body did not fail.
LastAttemptAnswered ==
    /\ pc = "done"
    /\ calls > 0
    /\ hist[calls].err = ""
    /\ out.err # ReadFailedErr

\* C22: whenever the last transport attempt returned a response without a
\* transport error and the body can be read, Send returns that response with
\* a nil error, whatever its status code.
C22_StatusIsNeverAnError ==
    LastAttemptAnswered => out = [resp |-> calls, err |-> NilErr]

\* C22 as the code has it: the same, unless the context ended the back-off
\* wait that followed the attempt.
C22_StatusIsNeverAnErrorUnlessCancelled ==
    (LastAttemptAnswered /\ hist[calls].wait # "ctx") =>
        out = [resp |-> calls, err |-> NilErr]

\* A 5xx response returned at the retry limit.
C22_Witness ==
    /\ LastAttemptAnswered
    /\ maxRetries >= 1
    /\ attempt = maxRetries
    /\ hist[calls].resp = 500
    /\ out = [resp |-> calls, err |-> NilErr]

\* The arguments 0, 1, 2, ... of n calls of the back-off function.
CountingFromZero(n) == [i \in 1..n |-> i - 1]

\* C23: the back-off function is called once between two consecutive
\* transport attempts, with the arguments 0, 1, 2, ... in that order, and
\* never after the final attempt: a Send of k attempts has called it k - 1
\* times.
C23_BackoffCalledBetweenAttempts ==
    /\ backoffs = CountingFromZero(Len(backoffs))
    /\ (pc = "call" /\ calls > 0) => Len(backoffs) = calls
    /\ (EngineReturned /\ calls > 0) => Len(backoffs) = calls - 1

\* C23 as the code has it: the same, but a Send whose context ended the
\* back-off wait has called the function once after its final attempt, k
\* times for k attempts.
C23_BackoffCalledBetweenAttemptsUnlessCancelled ==
    /\ backoffs = CountingFromZero(Len(backoffs))
    /\ (pc = "call" /\ calls > 0) => Len(backoffs) = calls
    /\ (EngineReturned /\ calls > 0) =>
           Len(backoffs) = IF hist[calls].wait = "ctx" THEN calls ELSE calls - 1

\* maxRetries = 2 against a server that always answers 500: three attempts
\* and two calls of the back-off function, with 0 and 1.
C23_Witness ==
    /\ pc = "done"
    /\ maxRetries = 2
    /\ calls = 3
    /\ \A k \in 1..3 : hist[k].resp = 500 /\ hist[k].err = ""
    /\ backoffs = <<0, 1>>

\* C4: the middlewares are entered in the order c1..cn, r1..rm before the
\* terminal handler runs and see the response in the reverse order.
C4_PreTrace ==
    [i \in 1..Len(client_Middlewares) + Len(b_middlewares) |->
        <<"pre", (client_Middlewares \o b_middlewares)[i]>>]
C4_PostTrace ==
    [i \in 1..Len(client_Middlewares) + Len(b_middlewares) |->
        <<"post", Reverse(client_Middlewares \o b_middlewares)[i]>>]
C4_MiddlewareOrder ==
    /\ pc = "chain_in" => trace = SubSeq(C4_PreTrace, 1, Len(trace))
    /\ pc \in {"direct", "call", "decide", "backoff"} =>
          trace = C4_PreTrace \o <<<<"T", <<"t", 0>>>>>>
    /\ pc \in {"drain", "done"} =>
          trace = C4_PreTrace \o <<<<"T", <<"t", 0>>>>>> \o C4_PostTrace
C4_Witness ==
    /\ pc = "done"
    /\ Len(client_Middlewares) = 2
    /\ Len(b_middlewares) = 2
    /\ Len(trace) = 9

\* C5: with the context never done and retry limit N, a Send makes
\* 1 + min(N, r) transport calls, r being the number of consecutive attempts
\* from the first for which the retry condition held; never more than N + 1.
C5_TransportCalls ==
    /\ calls <= (IF maxRetries < 1 THEN 0 ELSE maxRetries) + 1
    /\ (EngineReturned /\ ctxErr = "nil") =>
          calls = 1 + Min(IF maxRetries < 1 THEN 0 ELSE maxRetries, RetriedAttempts(hist))
C5_Witness ==
    /\ pc = "done"
    /\ ctxErr = "nil"
    /\ maxRetries = 2
    /\ calls = 2
    /\ RetriedAttempts(hist) = 1

\* The retry condition as C6 states it.
C6_Predicate(a) ==
    CASE retryIf = "default" -> (a.err # "" \/ a.resp >= 500)
      [] retryIf = "custom"  -> a.pred
      [] OTHER               -> FALSE
C6_Condition(a) == a.err # "" \/ (a.resp # 0 /\ C6_Predicate(a))

\* C6 (as stated): after an attempt that is not the last one the engine makes
\* another attempt if and only if the attempt returned an error or a non-nil
\* response for which the resolved predicate returns true.
C6_RetryIff ==
    EngineReturned =>
        \A k \in 1..Len(hist) :
            (k - 1 < maxRetries) => ((k < Len(hist)) <=> C6_Condition(hist[k]))

\* C6 (amended): after an attempt that is not the last one the engine makes
\* another attempt if and only if the condition held and the back-off wait
\* that followed was ended by its timer and not by the context being done.
C6_RetryIffTimerWins ==
    \A k \in 1..Len(hist) :
        (k - 1 < maxRetries) =>
            /\ (k < Len(hist)) => (C6_Condition(hist[k]) /\ hist[k].wait = "timer")
            /\ (k = Len(hist) /\ EngineReturned) =>
                  /\ hist[k].wait # "timer"
                  /\ C6_Condition(hist[k]) <=> (hist[k].wait = "ctx")
C6_Witness ==
    /\ pc = "done"
    /\ retryIf = "default"
    /\ maxRetries = 2
    /\ Len(hist) = 2
    /\ hist[1].resp = 500 /\ hist[1].err = ""
    /\ hist[2].resp = 499

\* C7: a context that is done before a back-off wait begins, or becomes done
\* during it, makes the engine return (nil, ctx.Err()) and not make the next
\* attempt.
C7_CancelEndsBackoff ==
    [][(pc = "backoff" /\ ctxErr # "nil" /\ pc' # "backoff") =>
          (pc' = "chain_out" /\ ret' = [resp |-> 0, err |-> CtxErr(ctxErr)]
           /\ calls' = calls)]_vars

\* C8 (as stated): whenever the engine ends with an error, it is the join of
\* all recorded errors if more than one attempt recorded one, and the single
\* error unchanged if only one did.
C8_JoinedOrSingle ==
    (EngineReturned /\ ret.err.kind # "nil") =>
        LET rec == RecordedErrors(hist, 1)
        IN /\ Len(rec) > 1 => ret.err = JoinErrs(rec)
           /\ Len(rec) = 1 => ret.err = RawErr(rec[1].e)

\* C8 (amended): when the engine ends because the last attempt it made
\* returned an error, the error returned is the join of all recorded errors
\* if more than one attempt recorded one, and that single error unchanged
\* otherwise; when it ends because the context was done during a back-off
\* wait it returns ctx.Err() alone.
C8_FinalAttemptError ==
    EngineReturned =>
        LET rec == RecordedErrors(hist, 1)
            last == hist[Len(hist)]
        IN /\ (last.err # "" /\ last.wait = "none") =>
                 /\ Len(rec) > 1 => ret.err = JoinErrs(rec)
                 /\ Len(rec) = 1 => ret.err = RawErr(rec[1].e)
           /\ last.wait = "ctx" => ret.err = CtxErr(ctxErr)
C8_Witness ==
    /\ pc = "done"
    /\ ret.err.kind = "join"
    /\ Len(ret.err.errs) = 2
    /\ Len(hist) = 3

\* C2: Send reads the client's headers, cookies and middlewares under the
\* reader lock and setters change them under the writer lock, so no Send
\* reads one of them while a setter is in the middle of changing it.
C2_NoReadDuringMutation ==
    /\ \A w \in Setters : setr[w].pc = "mutating" => mu_writer = w
    /\ \A f \in {"Headers", "Cookies", "Middlewares"} : ~(Reading(f) /\ Mutating(f))

\* C3: every buffered response's Body() is the bytes its own transport
\* response delivered, also after the pooled buffer it was read through has
\* been handed to other Sends.
C3_BodyIsOwnBytes ==
    /\ \A i \in 1..Len(responses) : Body(responses[i].BodyBytes) = responses[i].wire
    /\ \A s \in Senders : rsp[s].pc = "put" /\ ~rsp[s].failed =>
           Body(rsp[s].BodyBytes) = rsp[s].wire

\* C3 witness: two responses with different non-empty bodies were read
\* through the same pooled buffer, one after the other.
C3_Witness ==
    \E i, j \in 1..Len(responses) :
        /\ i < j
        /\ responses[i].via = responses[j].via
        /\ responses[i].wire # <<>>
        /\ responses[j].wire # <<>>
        /\ responses[i].wire # responses[j].wire

\* C9: after c = b.Clone(), a mutator called on one of the two builders
\* leaves the headers, cookies, queries, path parameters and form fields of
\* the other as they were.
C9_CloneIndependent ==
    [][\A x \in Builders : (cloned /\ Mutator(x)) => View(Other(x))' = View(Other(x))]_vars

\* C10: a key set on the client and on the builder is carried with the
\* builder's values only; a key set on one side keeps that side's values.
C10_BuilderOverridesClient ==
    applied =>
        \A k \in CanonKeys :
            req_Header[k] = IF b_headers[k] # <<>> THEN b_headers[k] ELSE client_Headers[k]

\* C11: at Send, a key of the builder's queries has in the final URL exactly
\* the builder's values for that key; a key only the URL has keeps its values.
C11_BuilderQueriesReplace ==
    merged =>
        \A k \in QKeys :
            raw_query[k] = IF b_queries[k] # <<>> THEN b_queries[k] ELSE url_query[k]

(***************************************************************************)
(* Properties of the stream worker.                                        *)
(***************************************************************************)
\* The invocations of one kind in the log, as positions.
LogPositions(kind) == {i \in 1..Len(st_log) : st_log[i][1] = kind}

\* The chunk callback's invocations, in order: on a whole line ("chunk")
\* or on the part of a line read before a failed read ("part").
RECURSIVE ChunkCalls(_)
ChunkCalls(log) ==
    IF log = <<>> THEN <<>>
    ELSE (IF Head(log)[1] \in {"chunk", "part"} THEN <<Head(log)>> ELSE <<>>)
         \o ChunkCalls(Tail(log))

\* One chunk callback per record, on the first n records of the body.
OnePerRecord(n) == [i \in 1..n |-> <<"chunk", st_body[i]>>]

\* C12: however the read loop ends, the done callback, if set, has run
\* exactly once when the worker ends, after every chunk and error callback,
\* and the body is closed; an empty body gives no chunk callback, no error
\* callback and one done callback.
C12_DoneOnceAndClosed ==
    st_pc = "end" =>
        /\ st_closed
        /\ st_cb.done =>
              /\ Cardinality(LogPositions("done")) = 1
              /\ st_log[Len(st_log)][1] = "done"
        /\ ~st_cb.done => LogPositions("done") = {}
        /\ (st_body = <<>> /\ st_scanErr = "nil") =>
              ChunkCalls(st_log) = <<>> /\ LogPositions("err") = {}

\* C12 witness: a worker with all callbacks set has ended after a scanner
\* error that followed a delivered chunk.
C12_Witness ==
    /\ st_pc = "end"
    /\ st_cb.done /\ st_cb.err
    /\ st_scanErr # "nil"
    /\ ChunkCalls(st_log) # <<>>
    /\ LogPositions("err") # {}

\* C13 as stated: unless a chunk callback returned an error, the chunk
\* callback has run once for each record of the body, in body order.
C13_EveryRecordDelivered ==
    (st_pc = "end" /\ ~st_cbFailed) => ChunkCalls(st_log) = OnePerRecord(Len(st_body))

\* C13, amended: the chunk callbacks run on the records in body order, one
\* each, up to the first callback error or scanner error; after a failed
\* read the part of the line already read is one more, last, chunk; a
\* loop that ends at the end of the body with no callback error has
\* delivered every record; no chunk callback follows a callback error.
C13_RecordsInOrderUntilStop ==
    LET chunks == ChunkCalls(st_log)
    IN /\ Len(chunks) \in {st_pos, st_pos + 1}
       /\ SubSeq(chunks, 1, st_pos) = OnePerRecord(st_pos)
       /\ Len(chunks) = st_pos + 1 =>
             /\ st_scanErr = "read"
             /\ chunks[st_pos + 1] = <<"part", st_body[st_pos + 1]>>
       /\ (st_pc = "end" /\ st_scanErr = "nil" /\ ~st_cbFailed) =>
             chunks = OnePerRecord(Len(st_body))
       /\ st_cbFailed => st_pc # "scan"

\* C13 witness: the worker has ended after a callback error with records
\* of the body left undelivered.
C13_Witness ==
    /\ st_pc = "end"
    /\ st_cbFailed
    /\ st_scanErr = "nil"
    /\ 0 < st_pos /\ st_pos < Len(st_body)

(***************************************************************************)
(* Properties of the round-robin selector.                                 *)
(***************************************************************************)
\* The returned calls that selected proxy p.
ReturnedWith(p) == {c \in rr_returned : c.proxy = p}

\* No call of the selector is between its Add and its return.
SelectorQuiet == \A g \in ProxyCallers : rr_call[g].pc = "idle"

\* Every proxy of the list has been selected by exactly m returned calls.
EachSelected(m) ==
    \A i \in 1..Len(rr_proxies) : Cardinality(ReturnedWith(rr_proxies[i])) = m

\* C14 as stated: any N*m returned calls, however interleaved with other
\* calls, select each proxy exactly m times.
C14_AnyReturnedCallsBalanced ==
    \A m \in 1..MaxProxyCalls :
        Cardinality(rr_returned) = Len(rr_proxies) * m => EachSelected(m)

\* C14, amended: the calls obtain the counter values 0, 1, 2, ... one each,
\* a call that obtained k returns proxies[k mod N], and once N*m calls have
\* been made and all of them have returned, each proxy has been selected
\* exactly m times.
C14_DistinctAndBalanced ==
    /\ rr_taken = [i \in 1..Len(rr_taken) |-> i - 1]
    /\ \A c \in rr_returned :
          /\ c.idx + 1 \in 1..Len(rr_taken)
          /\ c.proxy = rr_proxies[(c.idx % Len(rr_proxies)) + 1]
    /\ \A c, d \in rr_returned : c.idx = d.idx => c = d
    /\ \A m \in 1..MaxProxyCalls :
          (SelectorQuiet /\ Len(rr_taken) = Len(rr_proxies) * m) => EachSelected(m)

\* C14 witness: three goroutines have made 2*N calls between them, all
\* returned.
C14_Witness ==
    /\ SelectorQuiet
    /\ Cardinality(rr_returned) = 2 * Len(rr_proxies)
    /\ {c.g : c \in rr_returned} = ProxyCallers

(***************************************************************************)
(* Properties of a Send through round-robin proxies.                       *)
(***************************************************************************)
\* The position of proxy p in the list.
ProxyIndex(p) == CHOOSE i \in 1..Len(rr_proxies) : rr_proxies[i] = p

\* q is the proxy after p in the list, cyclically.
NextInList(p, q) == ProxyIndex(q) = (ProxyIndex(p) % Len(rr_proxies)) + 1

\* The attempts that consulted the selector.
ProxiedAttempts == {i \in 1..Len(hist) : hist[i].via # <<>>}

\* The scenario of the claim: proxies P1, P2, a limit of one retry, the
\* first attempt answered through P1 with a server error (the 500 of the
\* model stands for the 503), a second attempt, if made, answered 200 in
\* one round trip, and the context never done.
C20_Scenario ==
    /\ rr_proxies = <<"P1", "P2">>
    /\ maxRetries = 1
    /\ ctxErr = "nil"
    /\ pc = "done"
    /\ hist[1].resp = 500 /\ hist[1].err = "" /\ hist[1].via = <<"P1">>
    /\ Len(hist) >= 2 => (hist[2].resp = 200 /\ hist[2].err = "" /\ Len(hist[2].via) = 1)

\* What the claim expects of the scenario: two transport calls, the final
\* response is the 200, P1 and P2 used once each.
C20_ScenarioOutcome ==
    /\ calls = 2
    /\ Len(hist) = 2
    /\ ret.resp = 2 /\ ret.err = NilErr
    /\ hist[1].via = <<"P1">> /\ hist[2].via = <<"P2">>

\* C20 as stated: the successive transport attempts of one Send use
\* successive proxies of the list, and the scenario ends as expected.
C20_AttemptsUseSuccessiveProxies ==
    /\ \A i \in ProxiedAttempts :
          (i + 1) \in ProxiedAttempts => NextInList(hist[i].via[1], hist[i + 1].via[1])
    /\ C20_Scenario => C20_ScenarioOutcome

\* C20, amended: the successive round trips of one Send - the request of
\* each attempt and every redirect followed within an attempt - use
\* successive proxies of the list; attempts that follow no redirect use
\* successive proxies; and the scenario ends as expected.
C20_RoundTripsUseSuccessiveProxies ==
    /\ \A i \in ProxiedAttempts :
          /\ \A j \in 1..(Len(hist[i].via) - 1) : NextInList(hist[i].via[j], hist[i].via[j + 1])
          /\ (i + 1) \in ProxiedAttempts =>
                NextInList(hist[i].via[Len(hist[i].via)], hist[i + 1].via[1])
          /\ ((i + 1) \in ProxiedAttempts /\ Len(hist[i].via) = 1) =>
                NextInList(hist[i].via[1], hist[i + 1].via[1])
    /\ C20_Scenario => C20_ScenarioOutcome

\* C20 witness: the scenario has run to its end.
C20_Witness == C20_Scenario /\ C20_ScenarioOutcome /\ out.resp = 2

(***************************************************************************)
(* Properties of the redirect policies (SpecRedirect).                     *)
(***************************************************************************)
\* The redirects of the run the policy has accepted.
AcceptedRedirects == Len(rd_via) - 1

\* Hop k of the run (the request via[k], 2 <= k) leaves the host of the
\* request before it, or goes from https to http.
CrossHostOrDowngrade(k) == ~SameHostNoDowngrade(rd_via[k], rd_via[k - 1])

\* C15: with SmartRedirectPolicy, the request that follows an accepted hop to
\* another host (port stripped, case-insensitive) or from https to http
\* carries none of the five sensitive headers, and after such a hop no later
\* request of the chain to a host other than the first request's carries one.
C15_SensitiveHeadersStayStripped ==
    rd_policy.kind = "smart" =>
        \A j \in 2..Len(rd_via) :
            CrossHostOrDowngrade(j) =>
                /\ rd_via[j].hdr \cap sensitiveHeaders = {}
                /\ \A k \in (j + 1)..Len(rd_via) :
                      getHostname(rd_via[k].host) # getHostname(rd_via[1].host)
                          => rd_via[k].hdr \cap sensitiveHeaders = {}

\* The last accepted hop of the run: the follow-up request as sent (cur), as
\* the policy received it (req), and the request before it (pre).
HopAccepted == rd_handed # <<>>
HopCur == rd_via[Len(rd_via)]
HopPre == rd_via[Len(rd_via) - 1]
HopReq == rd_handed[1]

C17_FirstNRedirectsAccepted ==
    rd_err = "ErrTooManyRedirects" => AcceptedRedirects = rd_policy.limit

\* C18: after SmartRedirectPolicy accepts a hop, the follow-up request is GET
\* with nil body, content length 0 and none of the four payload headers when
\* the redirect response was 301 or 302 and the redirected method POST, or
\* was 303 and the method not HEAD; in every other case the policy leaves
\* method and body as it received them.
C18_DowngradeOnRedirectResponse ==
    (rd_policy.kind = "smart" /\ HopAccepted) =>
        IF \/ HopCur.resp \in {301, 302} /\ HopPre.method = "POST"
           \/ HopCur.resp = 303 /\ HopPre.method # "HEAD"
        THEN /\ HopCur.method = "GET"
             /\ ~HopCur.body
             /\ HopCur.len = 0
             /\ HopCur.hdr \cap payloadHeaders = {}
        ELSE /\ HopCur.method = HopReq.method
             /\ HopCur.body = HopReq.body

(***************************************************************************)
(* Properties of the NO_PROXY rules (SpecNoProxy).                         *)
(***************************************************************************)
\* The host a URL's Host names: without the port, and without the brackets
\* an IPv6 literal is written in.
HostNamed(host) ==
    IF IsIP(host) THEN host
    ELSE IF host[1] = "[" THEN SubSeq(host, 2, FirstIndex(host, "]") - 1)
    ELSE IF LastIndex(host, ":") # 0 THEN SubSeq(host, 1, LastIndex(host, ":") - 1)
    ELSE host

\* The entries of the bypass list that are domain rules, lower-cased.
DomainEntries ==
    { ToLower(np_bypass[i]) : i \in { j \in 1..Len(np_bypass) :
          /\ np_bypass[j] # <<"*">>
          /\ ~IsIP(np_bypass[j])
          /\ ~IsCIDR(np_bypass[j]) } }

\* The rule as the claim words it, for the host np.matches was asked about.
BypassRuleHolds ==
    LET h == ToLower(HostNamed(np_host))
    IN  \/ \E i \in 1..Len(np_bypass) : np_bypass[i] = <<"*">>
        \/ /\ IsIP(h)
           /\ \E i \in 1..Len(np_bypass) :
                 \/ IsIP(np_bypass[i]) /\ np_bypass[i] = h
                 \/ IsCIDR(np_bypass[i]) /\ CIDRContains(np_bypass[i], h)
        \/ /\ ~IsIP(h)
           /\ \E e \in DomainEntries :
                 IF e[1] = "."
                 THEN HasSuffix(h, e) /\ Len(h) > Len(e)
                 ELSE h = e \/ HasSuffix(h, <<".">> \o e)

\* C19: NoProxy.matches(host) is true if and only if, with the port stripped
\* and the host lower-cased, the list contains "*", or the host is an IP
\* literal equal to a listed IP or inside a listed CIDR, or the host is a
\* domain name and an entry with a leading dot has it as a proper subdomain,
\* or an entry without one equals it or is its parent domain.
C19_MatchesIffRule ==
    np_result # "none" => (np_result = "true" <=> BypassRuleHolds)

(***************************************************************************)
(* Properties of NewResponse and the accessors (SpecResponse).             *)
(***************************************************************************)
\* C24: NewResponse starts one worker when a chunk callback is set and none
\* otherwise; without one the body has been read to its end and closed when
\* a response is returned; the error and done callbacks alone start none.
C24_OneWorkerIffChunkCallback ==
    /\ nr_workers = (IF nr_pc = "returned" /\ nr_stream THEN 1 ELSE 0)
    /\ (st_pc # "idle") <=> (nr_workers = 1)
    /\ (nr_pc = "returned" /\ ~nr_stream) => (nr_BodyBytes = Bytes(st_body) /\ st_closed)

\* A response returned with only the error and done callbacks set: no worker.
C24_Witness ==
    /\ nr_pc = "returned"
    /\ ~nr_stream
    /\ st_cb = [err |-> TRUE, done |-> TRUE]
    /\ nr_workers = 0

\* A response in streaming mode, its worker running.
C24_StreamingWitness ==
    /\ nr_pc = "returned"
    /\ nr_stream
    /\ nr_workers = 1
    /\ st_pc = "scan"
    /\ st_pos > 0

\* C25: a streaming response's BodyBytes is nil for its whole life: Body()
\* is nil, ContentLength() is 0, ScanJSON, ScanXML and ScanYAML return nil
\* with the target untouched, Lines() yields nothing.
C25_StreamingBodyBytesNil ==
    nr_stream =>
        /\ nr_BodyBytes = NilBytes
        /\ nr_last.op = "Body" => nr_last.body = NilBytes
        /\ nr_last.op = "ContentLength" => nr_last.n = 0
        /\ nr_last.op \in Decoders => (nr_last.target = "untouched" /\ ~nr_last.err)
        /\ nr_last.op = "Lines" => nr_last.lines = <<>>

\* ScanJSON called on a streaming response whose worker has ended, after a
\* body of several records.
C25_Witness ==
    /\ nr_stream
    /\ st_pc = "end"
    /\ Len(st_log) >= 2
    /\ nr_last.op = "JSON"
    /\ nr_last.target = "untouched"

(***************************************************************************)
(* Properties of DelCookie and DelFile (SpecDel).                          *)
(***************************************************************************)
\* The elements of s whose name is none of the keys, in their order.
RECURSIVE Others(_, _)
Others(s, key) ==
    IF s = <<>> THEN <<>>
    ELSE (IF \E i \in 1..Len(key) : key[i] = Head(s).Name THEN <<>> ELSE <<Head(s)>>)
         \o Others(Tail(s), key)

\* C26: DelCookie removes every cookie named by one of its keys, adjacent
\* ones too, and keeps the others in their order; DelFile does the same to
\* the files by form name; neither touches the other list.
C26_DelRemovesEveryMatch ==
    /\ dl_op.op = "DelCookie" =>
          /\ dl_cookies = Others(dl_prev.cookies, dl_op.keys)
          /\ dl_files = dl_prev.files
    /\ dl_op.op = "DelFile" =>
          /\ dl_files = Others(dl_prev.files, dl_op.keys)
          /\ dl_cookies = dl_prev.cookies

\* DelCookie has removed two adjacent cookies and kept one after them.
C26_Witness ==
    /\ dl_op.op = "DelCookie"
    /\ Len(dl_prev.cookies) = 3
    /\ \A i \in 1..2 : \E k \in 1..Len(dl_op.keys) : dl_op.keys[k] = dl_prev.cookies[i].Name
    /\ dl_cookies = <<dl_prev.cookies[3]>>

\* DelFile with two keys has removed two adjacent files of different names.
C26_FileWitness ==
    /\ dl_op.op = "DelFile"
    /\ Len(dl_op.keys) = 2
    /\ Len(dl_prev.files) >= 2
    /\ dl_prev.files[1].Name # dl_prev.files[2].Name
    /\ dl_files = <<>>

(***************************************************************************)
(* Properties of the validation of proxy URLs (SpecValid).                 *)
(***************************************************************************)
\* The functions that take a list of proxy URLs.
ListFunctions == {"RoundRobinProxies", "RandomProxies", "SetProxies"}

\* A URL that is a proxy URL: it parses and its scheme is supported.
ValidProxyURL(raw) == raw \in {"http://p1:8080", "socks5://p3"}

\* The invalid URLs of a list, in its order.
RECURSIVE InvalidURLs(_)
InvalidURLs(urls) ==
    IF urls = <<>> THEN <<>>
    ELSE (IF ValidProxyURL(Head(urls)) THEN <<>> ELSE <<Head(urls)>>) \o InvalidURLs(Tail(urls))

\* C27: RoundRobinProxies, RandomProxies and SetProxies return ErrNoProxies
\* for an empty list and an error that is ErrUnsupportedScheme when a URL of
\* the list is invalid; no selector is then returned or installed and the
\* client's proxy setting is as before.
C27_InvalidListRejected ==
    pv_last.fn \in ListFunctions =>
        /\ pv_last.urls = <<>> =>
              (pv_last.err = "NoProxies" /\ pv_last.selector = NoSelector /\ pv_proxy = pv_prev)
        /\ (\E i \in 1..Len(pv_last.urls) : ~ValidProxyURL(pv_last.urls[i])) =>
              (pv_last.err = "UnsupportedScheme" /\ pv_last.selector = NoSelector
               /\ pv_proxy = pv_prev)

\* C27 as the code has it: the error for an invalid URL is the one of the
\* first invalid URL of the list: url.Parse's error when the URL does not
\* parse, an error that is ErrUnsupportedScheme when it parses.
C27_InvalidListRejectedWithFirstError ==
    pv_last.fn \in ListFunctions =>
        /\ pv_last.urls = <<>> =>
              (pv_last.err = "NoProxies" /\ pv_last.selector = NoSelector /\ pv_proxy = pv_prev)
        /\ InvalidURLs(pv_last.urls) # <<>> =>
              /\ pv_last.err = IF Head(InvalidURLs(pv_last.urls)) = "://invalid_url"
                               THEN "url.Error" ELSE "UnsupportedScheme"
              /\ pv_last.selector = NoSelector
              /\ pv_proxy = pv_prev

\* SetProxies refused a list whose second URL does not parse, and the proxy
\* set before is still the client's.
C27_Witness ==
    /\ pv_last.fn = "SetProxies"
    /\ pv_last.urls = <<"http://p1:8080", "://invalid_url">>
    /\ pv_last.err = "url.Error"
    /\ pv_prev # NoSelector
    /\ pv_proxy = pv_prev

(***************************************************************************)
(* Properties of the body's content type (SpecInfer).                      *)
(***************************************************************************)
\* Send has prepared, or failed to prepare, a body value with no form
\* fields, no files and no Content-Type header set.
InferredBody ==
    /\ ic_pc # "build"
    /\ ic_bodyData # "nil"
    /\ ~ic_form.fields /\ ~ic_form.files
    /\ ic_explicit = ""

\* C28: the content type of such a body is urlencoded for the header-like
\* and string maps, application/json for structs, string-keyed generic maps
\* and lists, text/plain for strings and bytes; with any other value Send
\* fails with ErrUnsupportedContentType before a transport call.
C28_ContentTypeInferredFromShape ==
    InferredBody =>
        CASE ic_bodyData \in {"url.Values", "map[string][]string", "map[string]string"} ->
                 (ic_err = "nil" => ic_header = "application/x-www-form-urlencoded")
          [] ic_bodyData \in {"struct{}", "User", "map[string]any", "[]any", "[]string"} ->
                 (ic_err \in {"nil", "encoder"} /\ (ic_err = "nil" => ic_header = "application/json"))
          [] ic_bodyData \in {"string", "[]byte"} ->
                 (ic_err = "nil" /\ ic_header = "text/plain")
          [] OTHER -> (ic_err = "UnsupportedContentType" /\ ic_calls = 0)

(***************************************************************************)
(* Properties of the cache middleware (SpecCache).                         *)
(***************************************************************************)
\* The last step was a GET through the middleware, and the cache had an
\* unexpired item under its key.
CacheHit ==
    /\ ch_last.op = "call"
    /\ ch_last.method = "GET"
    /\ ch_prev[ch_last.key].present
    /\ ~ch_prev[ch_last.key].expired

\* Two responses with the same status line, code, headers and body.
SameResponse(r, s) ==
    /\ r.Status = s.Status
    /\ r.StatusCode = s.StatusCode
    /\ r.Header.m = s.Header.m
    /\ r.Body = s.Body

\* C29: a GET whose key has an unexpired item gets a response with the
\* status line, code, headers and body of the response that was stored, and
\* the next handler is not called.
C29_HitReturnsStoredResponse ==
    CacheHit =>
        /\ ch_last.err = "nil"
        /\ SameResponse(ch_last.resp, ch_prev[ch_last.key].of)
        /\ ~ch_last.nextCalled

\* A hit on a stored response that has a header and a body.
C29_Witness ==
    /\ CacheHit
    /\ ch_last.resp.Header.m # {}
    /\ ch_last.resp.Body = <<"a">>
    /\ ~ch_last.nextCalled

\* C30: the middleware reads and writes the cache for GET requests only, and
\* writes only after the next handler returned a response of status 200 and
\* no error; any other call leaves the cache as it was.
C30_CacheTouchedOnlyForGet200 ==
    ch_last.op = "call" =>
        /\ (ch_last.read \/ ch_last.wrote) => ch_last.method = "GET"
        /\ ch_last.wrote =>
              (ch_last.nextCalled /\ ~ch_last.nextErr /\ ch_last.resp.StatusCode = 200)
        /\ (ch_cache # ch_prev) => ch_last.wrote
        /\ ~(ch_last.method = "GET" /\ ch_last.nextCalled /\ ~ch_last.nextErr
             /\ ch_last.resp.StatusCode = 200) => ch_cache = ch_prev

\* A GET answered 404 by the next handler, with an item under the other key:
\* the cache is as before.
C30_Witness ==
    /\ ch_last.op = "call"
    /\ ch_last.method = "GET"
    /\ ch_last.nextCalled
    /\ ch_last.resp.StatusCode = 404
    /\ \E k \in CacheKeys : ch_cache[k].present
    /\ ch_cache = ch_prev

(***************************************************************************)
(* Properties of the MemoryCache (SpecMem, SpecMemFair).                   *)
(***************************************************************************)
\* C31: Get returns (value, true) only for the value of the most recent Set
\* of the key, with no Delete of the key after it and its TTL not elapsed
\* at the call, whether or not the cleanup worker has removed the item.
C31_GetReturnsLiveItem ==
    mc_got.ok =>
        /\ mc_got.set
        /\ mc_got.value = mc_got.setValue
        /\ ~mc_got.elapsed

\* A Get of an item whose TTL had elapsed, and which the worker had not
\* removed, found nothing.
C31_Witness ==
    /\ ~mc_got.ok
    /\ mc_got.set
    /\ mc_got.elapsed
    /\ mc_got.kept

\* A Get has returned the value of the last Set, some time after it.
C31_FoundWitness ==
    /\ mc_got.ok
    /\ mc_got.value = "v2"
    /\ \E k \in MemKeys : mc_set[k].present /\ mc_set[k].expiration > mc_now /\ mc_now > 0

\* The cleanup worker is no more.
WorkerGone == mc_worker = "exited" \/ mc_crashed

\* C32: a MemoryCache has one cleanup worker, the worker changes the map
\* only under the exclusive lock, and once Close is called the worker
\* terminates in the end.
C32_OneWorkerUnderLockExits ==
    /\ [](mc_workers = (IF mc_worker = "none" THEN 0 ELSE 1))
    /\ [](mc_touch.by = "worker" => mc_touch.exclusive)
    /\ [](mc_worker = "locked" => (mc_lock.w = "worker" /\ mc_lock.r = {}))
    /\ ((mc_done = "closed") ~> WorkerGone)

\* The worker has removed an expired item and has exited after Close.
C32_Witness ==
    /\ mc_worker = "exited"
    /\ mc_touch.by = "worker"
    /\ \E k \in MemKeys : mc_set[k].present /\ ~mc_data[k].present

\* C40: no call of Close panics, however many there are.
C40_CloseNeverPanics == ~mc_crashed

(***************************************************************************)
(* Properties of the backoff strategies.                                   *)
(***************************************************************************)
\* min(initial * multiplier^attempt, cap), in whole nanoseconds.
CappedPower(initial, multiplier, cap, att) ==
    Min(Trunc(initial * IPow(multiplier[1], att), IPow(multiplier[2], att)), cap)

\* C33: the exponential strategy returns min(initial * multiplier^attempt,
\* cap) for every attempt >= 0; for positive initial and cap and a multiplier
\* of at least 1 the delay is never negative, never above cap, and never
\* below the delay of the attempt before.
C33_ExponentialIsCappedPower ==
    bs_attempt >= 0 =>
        /\ bs_delay = CappedPower(bs_cfg.initialInterval, bs_cfg.multiplier,
                                  bs_cfg.maxBackoffTime, bs_attempt)
        /\ bs_delay >= 0
        /\ bs_delay <= bs_cfg.maxBackoffTime
        /\ bs_prev <= bs_delay

\* The ends of the jitter interval, times the fraction's denominator.
JitterLow == LET l == bs_out.base * (bs_cfg.fraction[2] - bs_cfg.fraction[1])
             IN IF l > 0 THEN l ELSE 0
JitterHigh == bs_out.base * (bs_cfg.fraction[2] + bs_cfg.fraction[1])

\* C34 as stated: for a fraction f > 0 the jittered delay lies in
\* [max(0, b*(1-f)), b*(1+f)], b the base delay, for every draw; for f <= 0
\* it is b.
C34_JitterWithinFraction ==
    bs_out.called =>
        IF bs_cfg.fraction[1] > 0
        THEN /\ bs_out.result * bs_cfg.fraction[2] >= JitterLow
             /\ bs_out.result * bs_cfg.fraction[2] <= JitterHigh
        ELSE bs_out.result = bs_out.base

\* C34: for a fraction f > 0 the jittered delay lies between max(0, b*(1-f))
\* rounded down to a whole nanosecond and b*(1+f), for every draw; for f <= 0
\* it is b.
C34_JitterWithinFractionInNanoseconds ==
    bs_out.called =>
        IF bs_cfg.fraction[1] > 0
        THEN /\ bs_out.result >= JitterLow \div bs_cfg.fraction[2]
             /\ bs_out.result * bs_cfg.fraction[2] <= JitterHigh
        ELSE bs_out.result = bs_out.base

\* A jitter of twice the base delay, at the lowest draw, is held at zero.
C34_Witness ==
    /\ bs_out.called
    /\ bs_cfg.fraction = <<2, 1>>
    /\ bs_out.draw = 0
    /\ bs_out.base > 0
    /\ bs_out.result = 0

(***************************************************************************)
(* Properties of the builder's retry limit (Spec).                         *)
(***************************************************************************)
\* C35: a retry limit set on the builder is the limit of the request, for
\* every value: the Send makes no more transport calls than it plus one; on a client whose limit is at least 1, a request built with
\* MaxRetries(0) makes exactly one transport call.
C35_BuilderLimitOverrides ==
    b_maxRetriesSet =>
        /\ calls <= b_maxRetries + 1
        /\ (b_maxRetries = 0 /\ client_MaxRetries >= 1 /\ pc = "done") => calls = 1

(***************************************************************************)
(* Properties of Send's context and the streamed body (SpecSendCtx).       *)
(***************************************************************************)
\* C36: with a chunk callback, a positive timeout and a caller's context
\* without deadline, the return of Send does not cancel the context of the
\* response body: the worker's reads never end with the cancellation, and
\* the worker stops only at the end of the body or when the timeout elapsed.
C36_ReturnKeepsStreamContext ==
    (sx_in.stream /\ sx_in.timeout > 0 /\ ~sx_in.deadline) =>
        /\ sx_ctx # "canceled"
        /\ sx_err # "context canceled"
        /\ sx_worker = "failed" => sx_ctx = "deadline"
        /\ (sx_worker = "done" /\ sx_ctx = "live") => sx_got = sx_sent.n

(***************************************************************************)
(* Properties of the encoder's pooled buffer (SpecEnc).                    *)
(***************************************************************************)
\* C37: the buffer of an encoded request body is put back to the pool at most
\* once, and the body is never read after the buffer was put back, retries of
\* the request and other users of the pool included.
C37_BodyBufferPutOnceNeverReadAfter ==
    /\ ep_puts <= 1
    /\ ~ep_stale

(***************************************************************************)
(* Properties of clients created from one Config (SpecShare).              *)
(***************************************************************************)
\* C38: a default-header setter or AddMiddleware called on one of two clients
\* created from the same Config changes neither the default headers nor the
\* middleware chain the other client's requests get, nor the Config's.
C38_ClientsIndependent ==
    (cs_last.by # "none" /\ \A c \in ConfigClients : cs_clients[c].created) =>
        \A x \in (ConfigClients \cup {"config"}) \ {cs_last.by} :
            SeenByAll[x] = cs_last.before[x]

(***************************************************************************)
(* Properties of the cache key (SpecCacheKey).                             *)
(***************************************************************************)
\* The request whose response the item of the last hit was stored for.
HitFrom == ch_prev[ch_last.key].from

====
